---- MODULE Spec2Model ----
(***************************************************************************)
(* Model of abra's Operation Batch Executor (src/lib/session.ts),          *)
(* Adaptive Settle Detector (src/lib/dom-settle.ts) and Playbook Store     *)
(* (src/lib/playbook-store.ts).                                            *)
(*                                                                         *)
(* Spec        executeBatch walking one plan against a page that may       *)
(*             navigate, re-render and reject driver calls.                *)
(* SpecSettle  the in-page promise of waitForDOMSettle over discrete       *)
(*             milliseconds.                                               *)
(*                                                                         *)
(* JavaScript `undefined` / missing optional fields are modelled by the    *)
(* empty string (strings), -1 (element ids) and NoBounds / NoPosition.     *)
(***************************************************************************)
EXTENDS Integers, Sequences, FiniteSets, TLC

VARIABLES
  \* ---- executeBatch: inputs
  actions,        \* the plan handed to executeBatch (Action[])
  browser,        \* optional capabilities of the Browser object (mouse, press)
  hasStore,       \* whether playbookStore and domain were passed
  \* ---- PlaybookStore.data for the session's domain
  playbooks,      \* the domain's playbook list, in insertion order
  \* ---- executeBatch: locals
  pc,             \* position inside executeBatch, then in runGoal ("recorded", "stitched")
  i,              \* outer loop index (1-based here, 0-based in the source)
  j,              \* inner loop index over the expansion (1-based)
  expansion,      \* result of playbookStore.expand for actions[i]
  results, recordedOps, terminalAction, urlChanged, bailReason,
  currentUrl,     \* URL captured at batch start
  viewport,       \* getViewport(browser) at batch start
  completedCount, \* set on return
  thrown,         \* TRUE iff an exception escaped executeBatch
  \* ---- the page behind the Browser Driver
  pageUrl,        \* window.location.href
  dom,            \* selectors that document.querySelector resolves
  \* ---- observation of the driver traffic (not program state)
  calls,          \* one entry per awaited driver interaction, in order
  \* ---- waitForDOMSettle (SpecSettle)
  sTimeout, sQuiet,   \* options.timeout / options.quietPeriod after defaults
  sPc,                \* "idle" | "waiting" | "returned"
  sNow,               \* ms elapsed since the watch was installed
  sTimer,             \* deadline of the quiet-period timer, -1 when cleared
  sHard,              \* deadline of the hard timeout, -1 when cleared
  sLastMutation,      \* time of the latest observed mutation, -1 when none
  sResolvedAt,        \* time the in-page promise resolved, -1 when not
  sReason,            \* reason reported by the in-page promise
  sHasBody,           \* document.body exists
  \* ---- PlaybookStore instance (SpecStore); `playbooks` is its list
  hasData,        \* this.data.has(domain)
  loaded,         \* this.loadedDomains.has(domain)
  disk,           \* content of the domain's playbooks.json
  clock,          \* new Date(): a logical time, one tick per store call
  history,        \* the calls made so far, with arguments and results
  \* ---- several PlaybookStore instances on one file (SpecFile)
  stores,         \* per instance: its list, its flags, and its save in flight
  \* ---- runGoal (SpecGoal)
  goal            \* runGoal's locals: position, actionCount, elapsed time, result

batchVars == <<actions, browser, hasStore, playbooks, pc, i, j, expansion,
               results, recordedOps, terminalAction, urlChanged, bailReason,
               currentUrl, viewport, completedCount, thrown, pageUrl, dom,
               calls>>
settleVars == <<sTimeout, sQuiet, sPc, sNow, sTimer, sHard, sLastMutation,
                sResolvedAt, sReason, sHasBody>>
storeVars == <<hasData, loaded, disk, clock, history, stores, goal>>
vars == <<batchVars, settleVars, storeVars>>

----------------------------------------------------------------------------
\* Bounds of the model

MaxPlan == 3          \* longest plan handed to executeBatch
MaxPbLen == 2         \* most operations in the stored playbook
MaxStoreOps == 2      \* changing calls made on one PlaybookStore instance
MaxLog == 4           \* longest operation log handed to stitchFromLog
MaxCoord == 4         \* largest width / height of the small viewports
MaxSettleTimeout == 4 \* largest explicit options.timeout (ms)
MaxSettleQuiet == 2   \* largest explicit options.quietPeriod (ms)
SettleSlack == 2      \* ms the clock may run past the hard cap

----------------------------------------------------------------------------
\* Values

Selectors == {"#a", "#b"}
Urls == {"https://site/a", "https://site/b"}
StartUrl == "https://site/a"
Domain == "site"
NoBail == ""

NoBounds == [x |-> -1, y |-> -1, width |-> -1, height |-> -1]
NoPosition == [relXn |-> -1, relYn |-> -1, viewportWidth |-> -1,
               viewportHeight |-> -1, scrollX |-> -1, scrollY |-> -1]
NoElement == [id |-> -1, selector |-> "", bounds |-> NoBounds]

\* pageState.elements handed to executeBatch: one analysed element
elements == <<[id |-> 1, selector |-> "#a",
               bounds |-> [x |-> 100, y |-> 200, width |-> 40, height |-> 20]]>>

Act(type, elementId, selector, text, key, playbook, reason) ==
  [type |-> type, elementId |-> elementId, selector |-> selector, text |-> text,
   key |-> key, playbook |-> playbook, reason |-> reason,
   sourceX |-> -1, sourceY |-> -1]

NoAction == Act("", -1, "", "", "", "", "")

\* The plan items the oracle may return
PlanItems ==
  { Act("click", 1, "#a", "", "", "", ""),
    Act("click", -1, "#b", "", "", "", ""),
    Act("press", -1, "", "", "Enter", "", ""),
    Act("", -1, "", "", "", "checkout", ""),
    Act("", -1, "", "", "", "ghost", ""),
    Act("done", -1, "", "", "", "", "goal reached"),
    Act("failed", -1, "", "", "", "", "stuck") }

RECURSIVE SeqsUpTo(_, _)
SeqsUpTo(S, n) ==
  IF n = 0 THEN {<<>>}
  ELSE LET shorter == SeqsUpTo(S, n - 1)
       IN shorter \cup {Append(s, x) : s \in {t \in shorter : Len(t) = n - 1}, x \in S}

Plans == SeqsUpTo(PlanItems, MaxPlan) \ {<<>>}

----------------------------------------------------------------------------
\* playbook-store.ts: coordinate helpers.  A ratio relX = absX / width is kept
\* exactly, as the numerator relXn over the denominator viewportWidth stored
\* next to it (relYn over viewportHeight).

toRelative(absX, absY, vp, scroll) ==
  [relXn |-> absX, relYn |-> absY,
   viewportWidth |-> vp.width, viewportHeight |-> vp.height,
   scrollX |-> scroll.x, scrollY |-> scroll.y]

\* Math.round(n / d) for n >= 0, d > 0: halves round up
RoundDiv(n, d) == (2 * n + d) \div (2 * d)

\* both axes scaled by the viewport height
toAbsolute_heightOnly(stored, currentViewport) ==
  [x |-> RoundDiv(stored.relXn * currentViewport.height, stored.viewportWidth),
   y |-> RoundDiv(stored.relYn * currentViewport.height, stored.viewportHeight)]

toAbsolute(stored, currentViewport) ==
  [x |-> RoundDiv(stored.relXn * currentViewport.width, stored.viewportWidth),
   y |-> RoundDiv(stored.relYn * currentViewport.height, stored.viewportHeight)]

----------------------------------------------------------------------------
\* playbook-store.ts: PlaybookStore over the session's domain

PbOp(type, selector, position, text, key) ==
  [type |-> type, selector |-> selector, position |-> position, text |-> text,
   key |-> key, direction |-> "", amount |-> -1, duration |-> -1]

UpperCase == "ABCDEFGHIJKLMNOPQRSTUVWXYZ"
LowerCase == "abcdefghijklmnopqrstuvwxyz"

LowerChar(c) ==
  IF \E k \in 1..26 : SubSeq(UpperCase, k, k) = c
  THEN LET k == CHOOSE n \in 1..26 : SubSeq(UpperCase, n, n) = c
       IN SubSeq(LowerCase, k, k)
  ELSE c

RECURSIVE toLowerCase(_)
toLowerCase(s) ==
  IF Len(s) = 0 THEN ""
  ELSE LowerChar(SubSeq(s, 1, 1)) \o toLowerCase(SubSeq(s, 2, Len(s)))

includes(s, sub) ==
  \E k \in 1..(Len(s) - Len(sub) + 1) : SubSeq(s, k, k + Len(sub) - 1) = sub

\* a lookup that takes the first name containing the query
find_firstContaining(list, name) ==
  LET lower == toLowerCase(name)
      partial == {k \in 1..Len(list) : includes(toLowerCase(list[k].name), lower)}
  IN IF partial # {} THEN CHOOSE k \in partial : \A m \in partial : k <= m
     ELSE 0

\* index in the list of the playbook find() returns, 0 for null
find(list, name) ==
  LET lower == toLowerCase(name)
      exact == {k \in 1..Len(list) : toLowerCase(list[k].name) = lower}
      partial == {k \in 1..Len(list) : includes(toLowerCase(list[k].name), lower)}
      first(S) == CHOOSE k \in S : \A m \in S : k <= m
  IN IF exact # {} THEN first(exact)
     ELSE IF partial # {} THEN first(partial)
     ELSE 0

\* an expansion that hands out the operation as it is stored
ExpandOp_asStored(op, currentViewport) == op

ExpandOp(op, currentViewport) ==
  IF op.position = NoPosition THEN op
  ELSE LET abs == toAbsolute(op.position, currentViewport)
       IN [op EXCEPT !.position =
             [relXn |-> abs.x, relYn |-> abs.y,
              viewportWidth |-> currentViewport.width,
              viewportHeight |-> currentViewport.height,
              scrollX |-> op.position.scrollX,
              scrollY |-> op.position.scrollY]]

\* expand(): index 0 stands for the null result
expand(list, playbookName, currentViewport) ==
  LET k == find(list, playbookName)
  IN IF k = 0 THEN [playbook |-> 0, operations |-> <<>>]
     ELSE [playbook |-> k,
           operations |-> [n \in 1..Len(list[k].operations) |->
                             ExpandOp(list[k].operations[n], currentViewport)]]

\* a success that also re-bases the playbook on the replay's viewport
markSuccess_rebases(list, k) ==
  [list EXCEPT ![k].successCount = @ + 1, ![k].lastUsed = @ + 1,
               ![k].recordedViewport = [width |-> 1440, height |-> 900],
               ![k].operations = [n \in 1..Len(@) |->
                                    ExpandOp(@[n], [width |-> 1440, height |-> 900])]]

\* new Date().toISOString() is a logical timestamp: every touch advances it
markSuccess(list, k) ==
  [list EXCEPT ![k].successCount = @ + 1, ![k].lastUsed = @ + 1]

\* a failure booked on the success counter
markFailure_wrongCounter(list, k) ==
  [list EXCEPT ![k].successCount = @ + 1, ![k].lastUsed = @ + 1]

markFailure(list, k) ==
  [list EXCEPT ![k].failCount = @ + 1, ![k].lastUsed = @ + 1]

\* an id that also hashes where the operation was recorded
generateId_usesPosition(operations) ==
  LET part(op) == op.type \o ":" \o op.selector \o ":" \o op.text \o ":" \o op.key
                  \o ":" \o ToString(op.position.relXn)
      F[n \in 0..Len(operations)] ==
        IF n = 0 THEN ""
        ELSE IF n = 1 THEN part(operations[1])
        ELSE F[n - 1] \o "|" \o part(operations[n])
  IN F[Len(operations)]

\* the hashed content stands for its digest
generateId(operations) ==
  LET part(op) == op.type \o ":" \o op.selector \o ":" \o op.text \o ":" \o op.key
      F[n \in 0..Len(operations)] ==
        IF n = 0 THEN ""
        ELSE IF n = 1 THEN part(operations[1])
        ELSE F[n - 1] \o "|" \o part(operations[n])
  IN F[Len(operations)]

RecordedViewport == [width |-> 1280, height |-> 800]

\* The operations of the playbook on disk when the session starts: a click
\* with a recorded position, then a key press in another element, alternating
StoredOp(n) ==
  IF n % 2 = 1
  THEN PbOp("click", "#a", toRelative(640, 400, RecordedViewport, [x |-> 0, y |-> 0]), "", "")
  ELSE PbOp("press", "#b", NoPosition, "", "Enter")

StoredPlaybook(len) ==
  LET ops == [n \in 1..len |-> StoredOp(n)]
  IN [id |-> generateId(ops), name |-> "Checkout", domain |-> "site",
      pagePath |-> "/a", operations |-> ops,
      recordedViewport |-> RecordedViewport,
      successCount |-> 1, failCount |-> 0, lastUsed |-> 0, createdAt |-> 0]

\* RecordedOperation, lines 76-87
RecOp(type, selector, position, text, key, description) ==
  [type |-> type, selector |-> selector, position |-> position, text |-> text,
   key |-> key, direction |-> "", amount |-> -1, duration |-> -1,
   description |-> description]

\* record, lines 189-198: the stored operation drops the description
toPlaybookOp(op) ==
  [type |-> op.type, selector |-> op.selector, position |-> op.position,
   text |-> op.text, key |-> op.key, direction |-> op.direction,
   amount |-> op.amount, duration |-> op.duration]

\* record(): the list after the push; the new playbook is its last element
record(list, domain, pagePath, name, operations, vp, now) ==
  Append(list,
         [id |-> generateId(operations), name |-> name, domain |-> domain,
          pagePath |-> pagePath,
          operations |-> [n \in 1..Len(operations) |-> toPlaybookOp(operations[n])],
          recordedViewport |-> vp,
          successCount |-> 1, failCount |-> 0, lastUsed |-> now, createdAt |-> now])

\* String.prototype.slice(0, n)
Slice(s, n) == SubSeq(s, 1, IF Len(s) < n THEN Len(s) ELSE n)

\* Array.prototype.join
Join(parts, sep) ==
  LET F[n \in 0..Len(parts)] ==
        IF n = 0 THEN ""
        ELSE IF n = 1 THEN parts[1]
        ELSE F[n - 1] \o sep \o parts[n]
  IN F[Len(parts)]

\* autoName, lines 399-407: the part of the name one operation gives
NamePart(op) ==
  IF op.description # "" THEN op.description
  ELSE CASE op.type = "click" ->
              "click " \o (IF op.selector # "" THEN Slice(op.selector, 30) ELSE "element")
         [] op.type = "type" -> "type \"" \o Slice(op.text, 20) \o "\""
         [] op.type = "press" -> "press " \o (IF op.key # "" THEN op.key ELSE "key")
         [] op.type = "scroll" ->
              "scroll " \o (IF op.direction # "" THEN op.direction ELSE "down")
         [] op.type = "hover" ->
              "hover " \o (IF op.selector # "" THEN Slice(op.selector, 30) ELSE "element")
         [] OTHER -> op.type

\* the separator of the parts is written " -> " here
autoName(operations) ==
  LET kept == SelectSeq(operations, LAMBDA op : op.type # "wait")
      parts == [n \in 1..(IF Len(kept) < 3 THEN Len(kept) ELSE 3) |-> NamePart(kept[n])]
  IN Join(parts, " -> ")

maxGroupSize == 6

\* the for loop of stitchFromLog from index `start` (1-based) on: the list,
\* the playbooks created, and the groups it handled, in order, each with its
\* name and the index of the playbook find() gave for it (0 for none)
RECURSIVE StitchScan(_, _, _, _, _, _, _, _)
StitchScan(list, created, start, domain, pagePath, log, vp, now) ==
  IF start > Len(log) THEN [playbooks |-> list, created |-> created, handled |-> <<>>]
  ELSE LET end == IF start - 1 + maxGroupSize < Len(log)
                  THEN start - 1 + maxGroupSize ELSE Len(log)
           group == SubSeq(log, start, end)
       IN IF Len(group) < 2
          THEN StitchScan(list, created, start + 1, domain, pagePath, log, vp, now)
          ELSE LET name == autoName(group)
                   existing == find(list, name)
                   window == [start |-> start, end |-> end, name |-> name,
                              existing |-> existing, list |-> list]
                   rest ==
                     IF existing # 0
                     THEN StitchScan(markSuccess(list, existing), created, start + 1,
                                     domain, pagePath, log, vp, now)
                     ELSE LET grown == record(list, domain, pagePath, name, group,
                                              vp, now)
                          IN StitchScan(grown, Append(created, grown[Len(grown)]),
                                        end + 1, domain, pagePath, log, vp, now)
               IN [rest EXCEPT !.handled = <<window>> \o @]

stitchFromLog(list, domain, pagePath, log, vp, now) ==
  IF Len(log) < 2 THEN [playbooks |-> list, created |-> <<>>, handled |-> <<>>]
  ELSE StitchScan(list, <<>>, 1, domain, pagePath, log, vp, now)

\* an undefined value inside a template literal
Shown(s) == IF s = "" THEN "undefined" ELSE s

\* getSummary, lines 277-293: one line per playbook
SummaryOp(op) ==
  CASE op.type = "click" ->
         "click \"" \o (IF op.selector # "" THEN op.selector ELSE "element") \o "\""
    [] op.type = "type" -> "type \"" \o Shown(op.text) \o "\""
    [] op.type = "press" -> "press " \o Shown(op.key)
    [] op.type = "scroll" -> "scroll " \o Shown(op.direction)
    [] op.type = "wait" -> "wait undefinedms"
    [] op.type = "hover" ->
         "hover \"" \o (IF op.selector # "" THEN op.selector ELSE "element") \o "\""
    [] OTHER -> op.type

SummaryLine(pb) ==
  LET total == pb.successCount + pb.failCount
      reliability == IF total > 0 THEN RoundDiv(pb.successCount * 100, total) ELSE 100
  IN "- \"" \o pb.name \o "\" (" \o ToString(Len(pb.operations)) \o " steps, "
     \o ToString(reliability) \o "% reliable): "
     \o Join([n \in 1..Len(pb.operations) |-> SummaryOp(pb.operations[n])], " -> ")

getSummary(list) ==
  IF Len(list) = 0 THEN ""
  ELSE Join(<<"STORED PLAYBOOKS (from previous visits):",
              "Reference a playbook by name to replay the stored sequence.",
              "">>
            \o [n \in 1..Len(list) |-> SummaryLine(list[n])]
            \o <<"",
                 "To use a playbook, include it in your operations: {\"playbook\": \"playbook name\"}",
                 "You can mix playbook references with inline operations in the same batch.">>,
            "\n")

\* load, lines 149-157: the list parsed from the file, or the empty list
NoFile == [exists |-> FALSE, playbooks |-> <<>>]
loadedFrom(file) == IF file.exists THEN file.playbooks ELSE <<>>

----------------------------------------------------------------------------
\* The Browser Driver.  How the driver answers during one executeAction /
\* executePlaybookOperation call is an input: each primitive resolves or
\* rejects with a message.
\*   click     browser.click(selector)
\*   evaluate  browser.evaluate(script): "ok" a truthy value, "falsy" a falsy
\*             value (element not found / not focused), "throw" a rejection
\*   mouse     browser.mouse.click(x, y)
\*   other     browser.press / scroll / hover / wait

ClickTimeout == "Timeout 30000ms exceeded"
ClickDetached == "Element is not attached to the DOM"
ContextDestroyed == "Execution context was destroyed"
MouseFailed == "mouse.click failed"
OtherFailed == "Target closed"

DriverBehaviours ==
  [click : {"ok", ClickTimeout, ClickDetached},
   evaluate : {"ok", "falsy", "throw"},
   mouse : {"ok", "fail"},
   other : {"ok", "fail"}]

\* Only the primitives an operation type can reach are varied
BehavioursFor(type) ==
  {d \in DriverBehaviours :
     /\ type \notin {"click", "type"} => d.click = "ok" /\ d.mouse = "ok"
     /\ type \notin {"click", "type", "press"} => d.evaluate = "ok"
     /\ type = "click" => d.other = "ok"}

\* a full driver, and one without the optional mouse and press
Browsers == {[mouse |-> TRUE, press |-> TRUE], [mouse |-> FALSE, press |-> FALSE]}

\* outcome of a piece of driver code: ok or the thrown message, plus the
\* driver primitives it awaited
Ran(primitives) == [ok |-> TRUE, error |-> "", prims |-> primitives]
Threw(message, primitives) == [ok |-> FALSE, error |-> message, prims |-> primitives]

findElement(elementId) ==
  IF \E k \in 1..Len(elements) : elements[k].id = elementId
  THEN elements[CHOOSE k \in 1..Len(elements) :
                  /\ elements[k].id = elementId
                  /\ \A m \in 1..Len(elements) : elements[m].id = elementId => k <= m]
  ELSE NoElement

\* targetElement?.selector || action.selector
ResolveSelector(action) ==
  LET element == IF action.elementId # -1 THEN findElement(action.elementId) ELSE NoElement
  IN IF element.selector # "" THEN element.selector ELSE action.selector

isRecoverableClickError(errorMsg) ==
  \E pat \in {"strict mode violation", "is covered by", "intercept", "not visible",
              "outside of the viewport", "Timeout", ">>>", "__SHADOW_DOM__"} :
    includes(errorMsg, pat)

tryClickWithFallback(b, selector, element, d) ==
  IF d.click = "ok" THEN Ran(<<"click">>)
  ELSE IF ~isRecoverableClickError(d.click) THEN Threw(d.click, <<"click">>)
  ELSE IF d.evaluate = "ok" THEN Ran(<<"click", "evaluate">>)
  ELSE IF element.bounds # NoBounds /\ b.mouse
       THEN IF d.mouse = "ok" THEN Ran(<<"click", "evaluate", "mouse">>)
            ELSE Threw(MouseFailed, <<"click", "evaluate", "mouse">>)
       ELSE Threw(d.click, <<"click", "evaluate">>)

\* the body of executeAction's try block: what it awaits and whether it throws
ActionBody(b, action, d) ==
  LET element == IF action.elementId # -1 THEN findElement(action.elementId) ELSE NoElement
      selector == IF element.selector # "" THEN element.selector ELSE action.selector
      single(msg) == IF d.other = "ok" THEN Ran(<<action.type>>)
                     ELSE Threw(msg, <<action.type>>)
  IN CASE action.type = "click" ->
            IF action.sourceX # -1 /\ action.sourceY # -1
               /\ action.elementId \in {-1, 0} /\ action.selector = ""
            THEN IF ~b.mouse THEN Threw("Browser does not support coordinate clicks", <<>>)
                 ELSE IF d.mouse = "ok" THEN Ran(<<"mouse">>)
                 ELSE Threw(MouseFailed, <<"mouse">>)
            ELSE IF selector = ""
            THEN IF element.bounds # NoBounds /\ b.mouse
                 THEN IF d.mouse = "ok" THEN Ran(<<"mouse">>)
                      ELSE Threw(MouseFailed, <<"mouse">>)
                 ELSE Threw("No selector for click action", <<>>)
            ELSE tryClickWithFallback(b, selector, element, d)
       [] action.type = "type" ->
            IF action.text = "" THEN Threw("No text for type action", <<>>)
            ELSE IF selector = ""
            THEN IF d.evaluate = "throw" THEN Threw(ContextDestroyed, <<"evaluate">>)
                 ELSE Ran(<<"evaluate">>)
            ELSE IF d.evaluate = "throw" THEN Threw(ContextDestroyed, <<"evaluate">>)
            ELSE IF d.evaluate = "ok" THEN Ran(<<"evaluate", "evaluate">>)
            ELSE LET c == tryClickWithFallback(b, selector, element,
                                               [d EXCEPT !.evaluate = "falsy"])
                 IN IF ~c.ok THEN Threw(c.error, <<"evaluate">> \o c.prims)
                    ELSE IF d.other # "ok"
                    THEN Threw(OtherFailed, <<"evaluate">> \o c.prims \o <<"wait">>)
                    ELSE Ran(<<"evaluate">> \o c.prims \o <<"wait", "evaluate">>)
       [] action.type = "hover" ->
            IF selector = "" THEN Threw("No selector for hover action", <<>>)
            ELSE single(OtherFailed)
       [] action.type = "scroll" -> single(OtherFailed)
       [] action.type = "press" ->
            IF b.press THEN single(OtherFailed)
            ELSE IF d.evaluate = "throw" THEN Threw(ContextDestroyed, <<"evaluate">>)
            ELSE Ran(<<"evaluate">>)
       [] action.type = "wait" -> single(OtherFailed)
       [] action.type \in {"done", "failed"} -> Ran(<<>>)
       [] OTHER -> Threw("Unknown action type: " \o
                         (IF action.type = "" THEN "undefined" ELSE action.type), <<>>)

\* catch (err) { return { success: false, error } }
CaughtAsFailure(body) ==
  [success |-> body.ok, error |-> body.error, driver |-> body.prims # <<>>,
   thrown |-> FALSE]

\* a missing catch: the rejection leaves the function
Uncaught(body) ==
  [success |-> body.ok, error |-> body.error, driver |-> body.prims # <<>>,
   thrown |-> ~body.ok]

\* executeAction without its try / catch
executeAction_noCatch(b, action, d) == Uncaught(ActionBody(b, action, d))

executeAction(b, action, d) == CaughtAsFailure(ActionBody(b, action, d))

\* the body of executePlaybookOperation's try block; `fail` is a returned
\* { success: false, error }, which is no exception
PlaybookOpBody(b, op, d) ==
  LET single(prim) == IF d.other = "ok" THEN Ran(<<prim>>)
                      ELSE Threw(OtherFailed, <<prim>>)
      fallback(before) ==
        IF op.position # NoPosition /\ b.mouse
        THEN IF d.mouse = "ok" THEN Ran(before \o <<"mouse">>)
             ELSE Threw(MouseFailed, before \o <<"mouse">>)
        ELSE Ran(before)
  IN CASE op.type = "click" ->
            IF op.selector # "" /\ d.click = "ok" THEN Ran(<<"click">>)
            ELSE LET before == IF op.selector # "" THEN <<"click">> ELSE <<>>
                 IN IF op.position # NoPosition /\ b.mouse
                    THEN fallback(before)
                    ELSE Threw("No selector or coordinates for click", before)
       [] op.type = "type" ->
            IF op.text = "" THEN Threw("No text for type operation", <<>>)
            ELSE IF op.selector = ""
            THEN IF d.evaluate = "throw" THEN Threw(ContextDestroyed, <<"evaluate">>)
                 ELSE Ran(<<"evaluate">>)
            ELSE IF d.evaluate = "throw" THEN Threw(ContextDestroyed, <<"evaluate">>)
            ELSE IF d.evaluate = "ok" THEN Ran(<<"evaluate", "evaluate">>)
            ELSE LET c == IF d.click = "ok" THEN Ran(<<"evaluate", "click">>)
                          ELSE fallback(<<"evaluate", "click">>)
                 IN IF ~c.ok THEN c
                    ELSE IF d.other # "ok" THEN Threw(OtherFailed, c.prims \o <<"wait">>)
                    ELSE Ran(c.prims \o <<"wait", "evaluate">>)
       [] op.type = "press" ->
            IF b.press THEN single("press")
            ELSE IF d.evaluate = "throw" THEN Threw(ContextDestroyed, <<"evaluate">>)
            ELSE Ran(<<"evaluate">>)
       [] op.type = "scroll" -> single("scroll")
       [] op.type = "hover" ->
            IF op.selector # "" THEN single("hover")
            ELSE Threw("No selector for hover operation", <<>>)
       [] op.type = "wait" -> single("wait")
       [] OTHER -> Threw("Unknown operation type: " \o op.type, <<>>)

executePlaybookOperation(b, op, d) == CaughtAsFailure(PlaybookOpBody(b, op, d))

\* formatAction / formatVisionAction (llm.ts); sightMode is off in this model
formatAction(action) ==
  LET id == IF action.elementId = -1 THEN "undefined" ELSE ToString(action.elementId)
  IN CASE action.type = "click" ->
            "Clicked element " \o id \o " (" \o Shown(action.selector) \o ")"
       [] action.type = "type" ->
            "Typed \"" \o Shown(action.text) \o "\" into element " \o id
       [] action.type = "scroll" -> "Scrolled undefined undefinedpx"
       [] action.type = "hover" -> "Hovered over element " \o id
       [] action.type = "wait" -> "Waited undefinedms"
       [] action.type = "done" -> "Goal completed: " \o Shown(action.reason)
       [] action.type = "failed" -> "Goal failed: " \o Shown(action.reason)
       [] OTHER -> "Unknown action: " \o Shown(action.type)

\* the page after a driver interaction: it may have navigated and re-rendered
PageOutcomes == [url : Urls, dom : SUBSET Selectors]

\* the browser window is 1440x900 and the page is scrolled to its top, which
\* are also the values getViewport / getScroll fall back to
ActualViewport == [width |-> 1440, height |-> 900]
FallbackViewport == [width |-> 1440, height |-> 900]
PageScroll == [x |-> 0, y |-> 0]
FallbackScroll == [x |-> 0, y |-> 0]

----------------------------------------------------------------------------
\* session.ts: executeBatch.  A verdict is what a check decides: whether the
\* batch stops, and the urlChanged / bailReason it sets.

Continue == [stop |-> FALSE, urlChanged |-> FALSE, bailReason |-> NoBail]
Bail_dropsReason(changed, reason) ==
  [stop |-> TRUE, urlChanged |-> changed, bailReason |-> NoBail]

Bail(changed, reason) == [stop |-> TRUE, urlChanged |-> changed, bailReason |-> reason]

\* an awaited browser.evaluate: its value, or a rejection
Resolved(v) == [ok |-> TRUE, value |-> v]
Rejected == [ok |-> FALSE, value |-> ""]

\* lines 169-175: the URL captured at batch start
InitialUrl(read) == IF read.ok THEN read.value ELSE ""

\* getViewport, getScroll: value read from the page, or the fallback
getViewport(ok) == IF ok THEN ActualViewport ELSE FallbackViewport
getScroll(ok) == IF ok THEN PageScroll ELSE FallbackScroll

\* a loop that stays on the item it just ran
Advance_repeats(index) == index

\* lines 180 and 202: i++ and j++ of the two for loops
Advance(index) == index + 1

\* only the done verdict ends the batch
IsTerminal_doneOnly(action) == action.type = "done"

IsTerminal(action) == action.type \in {"done", "failed"}

\* line 190: action.playbook && playbookStore && domain
IsPlaybookRef(action, store) == action.playbook # "" /\ store

\* an unknown reference that ends the batch
NotFoundVerdict_aborts == Bail(FALSE, "playbook not found")

\* lines 192-197: the verdict on a reference expand() does not resolve
NotFoundVerdict == Continue
NotFoundResult(action) ==
  [actionDesc |-> "Playbook \"" \o action.playbook \o "\" (not found, skipped)",
   success |-> FALSE, error |-> "playbook not found"]

\* a failed operation that is reported but does not end the batch
FailureVerdict_keepsGoing(error) ==
  [stop |-> FALSE, urlChanged |-> FALSE, bailReason |-> "action failed: " \o error]

\* lines 263-268
FailureVerdict(error) == Bail(FALSE, "action failed: " \o error)

\* a URL comparison that is never made
UrlVerdict_noCompare(read, startUrl) ==
  IF ~read.ok THEN Bail(TRUE, "navigation detected") ELSE Continue

\* lines 300-313
UrlVerdict(read, startUrl) ==
  IF ~read.ok THEN Bail(TRUE, "navigation detected")
  ELSE IF read.value # startUrl THEN Bail(TRUE, "URL changed")
  ELSE Continue

\* lines 316-321: the selector the next-target check queries, "" for none
NextSelector(nextAction) ==
  IF ~IsTerminal(nextAction) /\ nextAction.playbook = ""
  THEN ResolveSelector(nextAction)
  ELSE ""

\* a missing next target that is only a rejected query away from being noticed
TargetVerdict_ignoresMissing(nextSelector, query) ==
  IF ~query.ok THEN Bail(TRUE, "element check failed (page may have navigated)")
  ELSE Continue

\* lines 323-338; query is the awaited !!document.querySelector(nextSelector)
TargetVerdict(nextSelector, query) ==
  IF ~query.ok THEN Bail(TRUE, "element check failed (page may have navigated)")
  ELSE IF ~query.value THEN Bail(FALSE, "next target missing: " \o nextSelector)
  ELSE Continue

\* lines 210-215
PlaybookFailureVerdict(name, step, error) ==
  Bail(FALSE, "playbook \"" \o name \o "\" failed at step " \o ToString(step)
              \o ": " \o error)

\* a URL read inside a playbook whose rejection is passed over
PlaybookUrlVerdict_swallows(read, startUrl, name, step) ==
  IF read.ok /\ read.value # startUrl
  THEN Bail(TRUE, "URL changed during playbook \"" \o name \o "\" at step "
                  \o ToString(step))
  ELSE Continue

\* lines 221-233
PlaybookUrlVerdict(read, startUrl, name, step) ==
  IF ~read.ok THEN Bail(TRUE, "navigation during playbook \"" \o name \o "\"")
  ELSE IF read.value # startUrl
  THEN Bail(TRUE, "URL changed during playbook \"" \o name \o "\" at step "
                  \o ToString(step))
  ELSE Continue

\* lines 270-292
Recorded(action, desc, vp, scroll) ==
  LET element == IF action.elementId # -1 THEN findElement(action.elementId) ELSE NoElement
  IN [type |-> action.type,
      selector |-> ResolveSelector(action),
      text |-> action.text, key |-> action.key,
      direction |-> "", amount |-> -1, duration |-> -1,
      description |-> desc,
      position |->
        IF element.bounds # NoBounds
        THEN toRelative(element.bounds.x + element.bounds.width \div 2,
                        element.bounds.y + element.bounds.height \div 2, vp, scroll)
        ELSE IF action.sourceX # -1 /\ action.sourceY # -1
        THEN toRelative(action.sourceX, action.sourceY, vp, scroll)
        ELSE NoPosition]

NoExpansion == [playbook |-> 0, operations |-> <<>>]
NoViewport == [width |-> 0, height |-> 0]

\* an awaited step of executeBatch: the plan slot (and sub-step) it belongs
\* to, whether it reached the driver, whether it succeeded / resolved, and the
\* value it gave (the error of a failed operation, the URL read, the answer of
\* the existence query).  A skipped playbook reference is logged too, as a
\* step that did not reach the driver.  getViewport, getScroll and waitForDOMSettle hide
\* their rejections, so they are logged as resolved.
Call(kind, slot, sub, driver, ok, value) ==
  [kind |-> kind, i |-> slot, j |-> sub, driver |-> driver, ok |-> ok, value |-> value]

SettleIdle ==
  /\ sTimeout = 0 /\ sQuiet = 0 /\ sPc = "idle" /\ sNow = 0 /\ sTimer = -1
  /\ sHard = -1 /\ sLastMutation = -1 /\ sResolvedAt = -1 /\ sReason = ""
  /\ sHasBody = TRUE

\* runSession lines 977-982: the store was constructed and the domain loaded
StoreLoaded ==
  /\ hasData = TRUE /\ loaded = TRUE /\ disk = [exists |-> TRUE, playbooks |-> <<StoredPlaybook(MaxPbLen)>>]
  /\ clock = 0 /\ history = <<>> /\ stores = <<>> /\ goal = <<>>

Init ==
  /\ actions \in Plans
  /\ browser \in Browsers
  /\ hasStore \in BOOLEAN
  /\ playbooks = <<StoredPlaybook(MaxPbLen)>>
  /\ pc = "start" /\ i = 1 /\ j = 0 /\ expansion = NoExpansion
  /\ results = <<>> /\ recordedOps = <<>> /\ terminalAction = NoAction
  /\ urlChanged = FALSE /\ bailReason = NoBail
  /\ currentUrl = "" /\ viewport = NoViewport
  /\ completedCount = -1 /\ thrown = FALSE
  /\ pageUrl = StartUrl /\ dom = Selectors
  /\ calls = <<>>
  /\ SettleIdle
  /\ StoreLoaded

\* lines 162-178
BatchStart ==
  /\ pc = "start"
  /\ \E urlOk \in BOOLEAN, vpOk \in BOOLEAN :
       /\ currentUrl' = InitialUrl(IF urlOk THEN Resolved(pageUrl) ELSE Rejected)
       /\ viewport' = getViewport(vpOk)
       /\ calls' = calls \o <<Call("url", 0, 0, TRUE, urlOk, IF urlOk THEN pageUrl ELSE ""),
                              Call("viewport", 0, 0, TRUE, TRUE, "")>>
  /\ pc' = "loop"
  /\ UNCHANGED <<actions, browser, hasStore, playbooks, i, j, expansion, results,
                 recordedOps, terminalAction, urlChanged, bailReason,
                 completedCount, thrown, pageUrl, dom>>
  /\ UNCHANGED settleVars
  /\ UNCHANGED storeVars

\* line 180: the loop condition fails
LoopExit ==
  /\ pc = "loop" /\ i > Len(actions)
  /\ pc' = "return"
  /\ UNCHANGED <<actions, browser, hasStore, playbooks, i, j, expansion, results,
                 recordedOps, terminalAction, urlChanged, bailReason, currentUrl,
                 viewport, completedCount, thrown, pageUrl, dom, calls>>
  /\ UNCHANGED settleVars
  /\ UNCHANGED storeVars

\* lines 183-187
Terminal ==
  /\ pc = "loop" /\ i <= Len(actions)
  /\ IsTerminal(actions[i])
  /\ terminalAction' = actions[i]
  /\ pc' = "return"
  /\ UNCHANGED <<actions, browser, hasStore, playbooks, i, j, expansion, results,
                 recordedOps, urlChanged, bailReason, currentUrl,
                 viewport, completedCount, thrown, pageUrl, dom, calls>>
  /\ UNCHANGED settleVars
  /\ UNCHANGED storeVars

\* lines 190-197
PlaybookNotFound ==
  /\ pc = "loop" /\ i <= Len(actions)
  /\ ~IsTerminal(actions[i]) /\ IsPlaybookRef(actions[i], hasStore)
  /\ expand(playbooks, actions[i].playbook, viewport).playbook = 0
  /\ results' = Append(results, NotFoundResult(actions[i]))
  /\ calls' = Append(calls, Call("skip", i, 0, FALSE, FALSE, "playbook not found"))
  /\ LET v == NotFoundVerdict
     IN /\ urlChanged' = (urlChanged \/ v.urlChanged)
        /\ bailReason' = v.bailReason
        /\ IF v.stop THEN pc' = "return" /\ i' = i
           ELSE pc' = "loop" /\ i' = Advance(i)
  /\ UNCHANGED <<actions, browser, hasStore, playbooks, j, expansion,
                 recordedOps, terminalAction, currentUrl,
                 viewport, completedCount, thrown, pageUrl, dom>>
  /\ UNCHANGED settleVars
  /\ UNCHANGED storeVars

\* lines 190-199, and 237-241 for an expansion without operations
PlaybookExpand ==
  /\ pc = "loop" /\ i <= Len(actions)
  /\ ~IsTerminal(actions[i]) /\ IsPlaybookRef(actions[i], hasStore)
  /\ LET e == expand(playbooks, actions[i].playbook, viewport)
     IN /\ e.playbook # 0
        /\ IF Len(e.operations) = 0
           THEN /\ playbooks' = markSuccess(playbooks, e.playbook)
                /\ i' = Advance(i)
                /\ UNCHANGED <<pc, j, expansion>>
           ELSE /\ expansion' = e /\ j' = 1 /\ pc' = "pbop"
                /\ UNCHANGED <<playbooks, i>>
  /\ UNCHANGED <<actions, browser, hasStore, results,
                 recordedOps, terminalAction, urlChanged, bailReason, currentUrl,
                 viewport, completedCount, thrown, pageUrl, dom, calls>>
  /\ UNCHANGED settleVars
  /\ UNCHANGED storeVars

\* lines 244-295: one concrete operation.  The page a successful operation
\* leaves behind is an input; a failed one leaves the page as it was.
ExecConcrete ==
  /\ pc = "loop" /\ i <= Len(actions)
  /\ ~IsTerminal(actions[i]) /\ ~IsPlaybookRef(actions[i], hasStore)
  /\ LET action == actions[i]
         actionDesc == formatAction(action)
     IN \E r \in {executeAction(browser, action, d) : d \in BehavioursFor(action.type)} :
        \E page \in (IF r.success /\ r.driver THEN PageOutcomes
                     ELSE {[url |-> pageUrl, dom |-> dom]}) :
        \E scrollOk \in BOOLEAN :
          LET v == IF r.success THEN Continue ELSE FailureVerdict(r.error)
          IN /\ calls' = calls \o <<Call("action", i, 0, r.driver, r.success, r.error)>>
                         \o (IF r.success /\ ~r.thrown
                             THEN <<Call("scroll", i, 0, TRUE, TRUE, "")>> ELSE <<>>)
             /\ pageUrl' = page.url /\ dom' = page.dom
             /\ IF r.thrown
                THEN /\ thrown' = TRUE /\ pc' = "threw"
                     /\ UNCHANGED <<results, recordedOps, urlChanged, bailReason>>
                ELSE /\ results' = Append(results, [actionDesc |-> actionDesc,
                                                    success |-> r.success, error |-> r.error])
                     /\ urlChanged' = (urlChanged \/ v.urlChanged)
                     /\ bailReason' = v.bailReason
                     /\ recordedOps' =
                          IF v.stop THEN recordedOps
                          ELSE Append(recordedOps,
                                      Recorded(action, actionDesc, viewport, getScroll(scrollOk)))
                     /\ pc' = IF v.stop \/ i = Len(actions) THEN "return" ELSE "settle"
                     /\ UNCHANGED thrown
  /\ UNCHANGED <<actions, browser, hasStore, playbooks, i, j, expansion,
                 terminalAction, currentUrl, viewport, completedCount>>
  /\ UNCHANGED settleVars
  /\ UNCHANGED storeVars

\* line 298: await waitForDOMSettle(browser); it returns normally (SpecSettle)
Settle ==
  /\ pc = "settle"
  /\ calls' = Append(calls, Call("settle", i, 0, TRUE, TRUE, ""))
  /\ pc' = "urlcheck"
  /\ UNCHANGED <<actions, browser, hasStore, playbooks, i, j, expansion, results,
                 recordedOps, terminalAction, urlChanged, bailReason, currentUrl,
                 viewport, completedCount, thrown, pageUrl, dom>>
  /\ UNCHANGED settleVars
  /\ UNCHANGED storeVars

\* lines 300-313
UrlCheck ==
  /\ pc = "urlcheck"
  /\ \E ok \in BOOLEAN :
       LET v == UrlVerdict(IF ok THEN Resolved(pageUrl) ELSE Rejected, currentUrl)
       IN /\ urlChanged' = (urlChanged \/ v.urlChanged)
          /\ bailReason' = v.bailReason
          /\ pc' = IF v.stop THEN "return" ELSE "target"
          /\ calls' = Append(calls, Call("url", i, 0, TRUE, ok, IF ok THEN pageUrl ELSE ""))
  /\ UNCHANGED <<actions, browser, hasStore, playbooks, i, j, expansion, results,
                 recordedOps, terminalAction, currentUrl,
                 viewport, completedCount, thrown, pageUrl, dom>>
  /\ UNCHANGED settleVars
  /\ UNCHANGED storeVars

\* lines 315-340: the next-target check, then i++
TargetCheck ==
  /\ pc = "target"
  /\ LET nextSelector == NextSelector(actions[i + 1])
     IN IF nextSelector = ""
        THEN /\ pc' = "loop" /\ i' = Advance(i)
             /\ UNCHANGED <<urlChanged, bailReason, calls>>
        ELSE \E ok \in BOOLEAN :
               LET v == TargetVerdict(nextSelector,
                                      IF ok THEN Resolved(nextSelector \in dom)
                                      ELSE [ok |-> FALSE, value |-> FALSE])
               IN /\ urlChanged' = (urlChanged \/ v.urlChanged)
                  /\ bailReason' = v.bailReason
                  /\ calls' = Append(calls, Call("target", i + 1, 0, TRUE, ok,
                                                 IF ~ok THEN ""
                                                 ELSE IF nextSelector \in dom THEN "found"
                                                 ELSE "missing"))
                  /\ IF v.stop THEN pc' = "return" /\ i' = i
                     ELSE pc' = "loop" /\ i' = Advance(i)
  /\ UNCHANGED <<actions, browser, hasStore, playbooks, j, expansion, results,
                 recordedOps, terminalAction, currentUrl,
                 viewport, completedCount, thrown, pageUrl, dom>>
  /\ UNCHANGED settleVars
  /\ UNCHANGED storeVars

\* lines 202-215 and 237-241: one operation of the expansion
PlaybookOp ==
  /\ pc = "pbop"
  /\ \E r \in {executePlaybookOperation(browser, expansion.operations[j], d) :
                 d \in BehavioursFor(expansion.operations[j].type)} :
     \E page \in (IF r.success /\ r.driver THEN PageOutcomes
                  ELSE {[url |-> pageUrl, dom |-> dom]}) :
       LET name == actions[i].playbook
           op == expansion.operations[j]
           n == Len(expansion.operations)
           opDesc == "[playbook \"" \o name \o "\" step " \o ToString(j) \o "/"
                     \o ToString(n) \o "] " \o op.type \o " " \o op.selector
           v == IF r.success THEN Continue ELSE PlaybookFailureVerdict(name, j, r.error)
       IN /\ calls' = Append(calls, Call("playbook-op", i, j, r.driver, r.success, r.error))
          /\ pageUrl' = page.url /\ dom' = page.dom
          /\ IF r.thrown
             THEN /\ thrown' = TRUE /\ pc' = "threw"
                  /\ UNCHANGED <<results, urlChanged, bailReason, playbooks, i>>
             ELSE /\ results' = Append(results, [actionDesc |-> opDesc,
                                                 success |-> r.success, error |-> r.error])
                  /\ urlChanged' = (urlChanged \/ v.urlChanged)
                  /\ bailReason' = v.bailReason
                  /\ UNCHANGED thrown
                  /\ IF v.stop
                     THEN /\ playbooks' = markFailure(playbooks, expansion.playbook)
                          /\ pc' = "return" /\ i' = i
                     ELSE IF j < n
                     THEN /\ pc' = "pbsettle" /\ UNCHANGED <<playbooks, i>>
                     ELSE /\ playbooks' = markSuccess(playbooks, expansion.playbook)
                          /\ pc' = "loop" /\ i' = Advance(i)
  /\ UNCHANGED <<actions, browser, hasStore, j, expansion, recordedOps,
                 terminalAction, currentUrl, viewport, completedCount>>
  /\ UNCHANGED settleVars
  /\ UNCHANGED storeVars

\* line 219
PlaybookSettle ==
  /\ pc = "pbsettle"
  /\ calls' = Append(calls, Call("settle", i, j, TRUE, TRUE, ""))
  /\ pc' = "pburl"
  /\ UNCHANGED <<actions, browser, hasStore, playbooks, i, j, expansion, results,
                 recordedOps, terminalAction, urlChanged, bailReason, currentUrl,
                 viewport, completedCount, thrown, pageUrl, dom>>
  /\ UNCHANGED settleVars
  /\ UNCHANGED storeVars

\* lines 221-237
PlaybookUrlCheck ==
  /\ pc = "pburl"
  /\ \E ok \in BOOLEAN :
       LET v == PlaybookUrlVerdict(IF ok THEN Resolved(pageUrl) ELSE Rejected,
                                   currentUrl, actions[i].playbook, j)
       IN /\ urlChanged' = (urlChanged \/ v.urlChanged)
          /\ bailReason' = v.bailReason
          /\ IF v.stop THEN pc' = "return" /\ j' = j
             ELSE pc' = "pbop" /\ j' = Advance(j)
          /\ calls' = Append(calls, Call("url", i, j, TRUE, ok, IF ok THEN pageUrl ELSE ""))
  /\ UNCHANGED <<actions, browser, hasStore, playbooks, i, expansion, results,
                 recordedOps, terminalAction, currentUrl,
                 viewport, completedCount, thrown, pageUrl, dom>>
  /\ UNCHANGED settleVars
  /\ UNCHANGED storeVars

\* lines 342-354
Return ==
  /\ pc = "return"
  /\ completedCount' = Len(results)
  /\ pc' = "returned"
  /\ UNCHANGED <<actions, browser, hasStore, playbooks, i, j, expansion, results,
                 recordedOps, terminalAction, urlChanged, bailReason, currentUrl,
                 viewport, thrown, pageUrl, dom, calls>>
  /\ UNCHANGED settleVars
  /\ UNCHANGED storeVars

\* new URL(href).pathname for the URLs of the model: what follows the host
pathname(href) ==
  LET scheme == Len("https://")
      slashes == {k \in (scheme + 1)..Len(href) : SubSeq(href, k, k) = "/"}
  IN IF slashes = {} THEN "/"
     ELSE SubSeq(href, CHOOSE k \in slashes : \A m \in slashes : k <= m, Len(href))

\* runGoal lines 861-866: the path of the page, "/" when it cannot be read
PagePath(read) == IF read.ok THEN pathname(read.value) ELSE "/"

\* the names a navigator gives a batch; "" when it gives none
SequenceNames == {"", "Sign in"}

\* a recording that does not look at how the batch ended
ShouldRecord_ignoresBail(store, bail, ops) == store /\ Len(ops) >= 2

\* runGoal line 860
ShouldRecord(store, bail, ops) == store /\ bail = NoBail /\ Len(ops) >= 2

\* runGoal lines 856-874: what the caller does with the batch's result
RunGoalRecord ==
  /\ pc = "returned"
  /\ pc' = "recorded"
  /\ IF ShouldRecord(hasStore, bailReason, recordedOps)
     THEN \E urlOk \in BOOLEAN, vpOk \in BOOLEAN, sequenceName \in SequenceNames :
            LET pagePath == PagePath(IF urlOk THEN Resolved(pageUrl) ELSE Rejected)
                seqName == IF sequenceName # "" THEN sequenceName
                           ELSE autoName(recordedOps)
            IN /\ clock' = clock + 1
               /\ playbooks' = record(playbooks, Domain, pagePath, seqName,
                                      recordedOps, getViewport(vpOk), clock')
     ELSE UNCHANGED <<playbooks, clock>>
  /\ UNCHANGED <<actions, browser, hasStore, i, j, expansion, results,
                 recordedOps, terminalAction, urlChanged, bailReason, currentUrl,
                 viewport, completedCount, thrown, pageUrl, dom, calls>>
  /\ UNCHANGED settleVars
  /\ UNCHANGED <<hasData, loaded, disk, history, stores, goal>>

\* a stitch of every log, however short
ShouldStitch_anyLog(store, logLength) == store

\* runGoal line 930
ShouldStitch(store, logLength) == store /\ logLength >= 2

\* runGoal lines 856-857 and 928-942: the goal ends after this batch, and the
\* finally block stitches the goal's log, which is this batch's recordedOps
RunGoalStitch ==
  /\ pc = "recorded"
  /\ pc' = "stitched"
  /\ LET sessionActionLog == recordedOps
     IN IF ShouldStitch(hasStore, Len(sessionActionLog))
        THEN \E urlOk \in BOOLEAN, vpOk \in BOOLEAN :
               LET pagePath == PagePath(IF urlOk THEN Resolved(pageUrl) ELSE Rejected)
               IN /\ clock' = clock + 1
                  /\ playbooks' = stitchFromLog(playbooks, Domain, pagePath,
                                                sessionActionLog, getViewport(vpOk),
                                                clock').playbooks
        ELSE UNCHANGED <<playbooks, clock>>
  /\ UNCHANGED <<actions, browser, hasStore, i, j, expansion, results,
                 recordedOps, terminalAction, urlChanged, bailReason, currentUrl,
                 viewport, completedCount, thrown, pageUrl, dom, calls>>
  /\ UNCHANGED settleVars
  /\ UNCHANGED <<hasData, loaded, disk, history, stores, goal>>

Next ==
  \/ BatchStart \/ LoopExit \/ Terminal \/ PlaybookNotFound \/ PlaybookExpand
  \/ ExecConcrete \/ Settle \/ UrlCheck \/ TargetCheck
  \/ PlaybookOp \/ PlaybookSettle \/ PlaybookUrlCheck \/ Return
  \/ RunGoalRecord

Spec == Init /\ [][Next]_vars

\* the batch, and the end of a goal that ends after it
GoalEndNext ==
  \/ BatchStart \/ LoopExit \/ Terminal \/ PlaybookNotFound \/ PlaybookExpand
  \/ ExecConcrete \/ Settle \/ UrlCheck \/ TargetCheck
  \/ PlaybookOp \/ PlaybookSettle \/ PlaybookUrlCheck \/ Return
  \/ RunGoalRecord \/ RunGoalStitch

SpecGoalEnd == Init /\ [][GoalEndNext]_vars

----------------------------------------------------------------------------
\* dom-settle.ts: waitForDOMSettle.  Time is counted in whole milliseconds
\* since the script passed to browser.evaluate started; a timer whose deadline
\* has come runs before the clock advances.  mutationCount, which only feeds
\* the debug line, is left out.

DefaultTimeout == 2000
DefaultQuietPeriod == 100

\* options: DOMSettleOptions = {}, either field optional
NoOptions == [k \in {} |-> 0]
SettleOptions ==
  [timeout : 1..MaxSettleTimeout, quietPeriod : 1..MaxSettleQuiet]
    \cup [timeout : 1..MaxSettleTimeout] \cup [quietPeriod : 1..MaxSettleQuiet]
    \cup {NoOptions}

\* const { timeout = 2000, quietPeriod = 100 } = options
OptTimeout(options) ==
  IF "timeout" \in DOMAIN options THEN options.timeout ELSE DefaultTimeout

OptQuietPeriod(options) ==
  IF "quietPeriod" \in DOMAIN options THEN options.quietPeriod ELSE DefaultQuietPeriod

\* a hard timeout that is never armed
HardDeadline_never(now, timeout) == -1

\* hardTimeout = setTimeout(..., timeout): its deadline
HardDeadline(now, timeout) == now + timeout

\* timer = setTimeout(..., quietPeriod) at installation
FirstQuietDeadline(now, quietPeriod) == now + quietPeriod

\* an observer that leaves the running quiet timer alone
ObserverDeadline_keepsTimer(now, oldTimer, quietPeriod) == oldTimer

\* the MutationObserver callback: clearTimeout(timer); timer = setTimeout(...)
ObserverDeadline(now, oldTimer, quietPeriod) == now + quietPeriod

BatchIdle ==
  /\ actions = <<>> /\ browser = [mouse |-> TRUE, press |-> TRUE]
  /\ hasStore = FALSE /\ playbooks = <<>>
  /\ pc = "idle" /\ i = 1 /\ j = 0 /\ expansion = NoExpansion
  /\ results = <<>> /\ recordedOps = <<>> /\ terminalAction = NoAction
  /\ urlChanged = FALSE /\ bailReason = NoBail
  /\ currentUrl = "" /\ viewport = NoViewport
  /\ completedCount = -1 /\ thrown = FALSE
  /\ pageUrl = StartUrl /\ dom = Selectors
  /\ calls = <<>>

SettleInit ==
  /\ BatchIdle
  /\ StoreLoaded
  /\ \E options \in SettleOptions :
       /\ sTimeout = OptTimeout(options)
       /\ sQuiet = OptQuietPeriod(options)
  /\ sHasBody \in BOOLEAN
  /\ sPc = "idle" /\ sNow = 0 /\ sTimer = -1 /\ sHard = -1
  /\ sLastMutation = -1 /\ sResolvedAt = -1 /\ sReason = ""

\* the promise executor: no body resolves at once, else observer and timers
SettleInstall ==
  /\ sPc = "idle"
  /\ IF ~sHasBody
     THEN /\ sPc' = "returned" /\ sResolvedAt' = sNow /\ sReason' = "no-body"
          /\ UNCHANGED <<sTimer, sHard>>
     ELSE /\ sPc' = "waiting"
          /\ sHard' = HardDeadline(sNow, sTimeout)
          /\ sTimer' = FirstQuietDeadline(sNow, sQuiet)
          /\ UNCHANGED <<sResolvedAt, sReason>>
  /\ UNCHANGED <<sTimeout, sQuiet, sNow, sLastMutation, sHasBody>>
  /\ UNCHANGED batchVars
  /\ UNCHANGED storeVars

\* the page mutates and the observer callback runs
SettleMutation ==
  /\ sPc = "waiting"
  /\ sLastMutation' = sNow
  /\ sTimer' = ObserverDeadline(sNow, sTimer, sQuiet)
  /\ UNCHANGED <<sTimeout, sQuiet, sPc, sNow, sHard, sResolvedAt, sReason, sHasBody>>
  /\ UNCHANGED batchVars
  /\ UNCHANGED storeVars

\* the quiet-period timer fires: disconnect, resolve
SettleQuietFires ==
  /\ sPc = "waiting" /\ sTimer # -1 /\ sTimer <= sNow
  /\ sPc' = "returned" /\ sResolvedAt' = sNow
  /\ sReason' = IF sLastMutation = -1 THEN "no-mutations" ELSE "quiet"
  /\ sTimer' = -1
  /\ sHard' = IF sLastMutation = -1 THEN sHard ELSE -1
  /\ UNCHANGED <<sTimeout, sQuiet, sNow, sLastMutation, sHasBody>>
  /\ UNCHANGED batchVars
  /\ UNCHANGED storeVars

\* the hard timeout fires: disconnect, clearTimeout(timer), resolve
SettleHardFires ==
  /\ sPc = "waiting" /\ sHard # -1 /\ sHard <= sNow
  /\ sPc' = "returned" /\ sResolvedAt' = sNow /\ sReason' = "timeout"
  /\ sTimer' = -1 /\ sHard' = -1
  /\ UNCHANGED <<sTimeout, sQuiet, sNow, sLastMutation, sHasBody>>
  /\ UNCHANGED batchVars
  /\ UNCHANGED storeVars

\* a rejection that is passed on to the caller
SettleCatch_rethrows == "threw"

\* lines 168-171: catch { debug(...) }: where the rejection leaves the function
SettleCatch == "returned"

\* browser.evaluate rejects (the page navigated): caught, the wait returns
SettleRejected ==
  /\ sPc \in {"idle", "waiting"}
  /\ sPc' = SettleCatch /\ sResolvedAt' = sNow /\ sReason' = "navigated"
  /\ UNCHANGED <<sTimeout, sQuiet, sNow, sTimer, sHard, sLastMutation, sHasBody>>
  /\ UNCHANGED batchVars
  /\ UNCHANGED storeVars

\* a millisecond passes; no timer is due
SettleTick ==
  /\ sPc = "waiting"
  /\ sTimer = -1 \/ sTimer > sNow
  /\ sHard = -1 \/ sHard > sNow
  /\ sNow < sTimeout + SettleSlack
  /\ sNow' = sNow + 1
  /\ UNCHANGED <<sTimeout, sQuiet, sPc, sTimer, sHard, sLastMutation,
                 sResolvedAt, sReason, sHasBody>>
  /\ UNCHANGED batchVars
  /\ UNCHANGED storeVars

SettleNext ==
  \/ SettleInstall \/ SettleMutation \/ SettleQuietFires \/ SettleHardFires
  \/ SettleRejected \/ SettleTick

SpecSettle == SettleInit /\ [][SettleNext]_vars

----------------------------------------------------------------------------
\* playbook-store.ts: one PlaybookStore instance and one domain.  Every call
\* is logged in `history` with its arguments, its result and the list before
\* and after it.  find, expand and getSummary leave the store as it is, so a
\* run is followed up to the first of them.

StoreViewports == {[width |-> 1440, height |-> 900], [width |-> 1280, height |-> 800]}
CentrePosition == toRelative(720, 450, [width |-> 1440, height |-> 900], [x |-> 0, y |-> 120])

\* operation sequences handed to record: LoginOps and LoginOpsAgain agree on
\* type, selector, text and key and differ in description and position
LoginOps ==
  <<RecOp("click", "#a", CentrePosition, "", "", "Clicked element 1 (#a)"),
    RecOp("type", "#a", NoPosition, "x", "", "Typed \"x\" into element 1")>>
LoginOpsAgain ==
  <<RecOp("click", "#a", NoPosition, "", "", "open the form"),
    RecOp("type", "#a", NoPosition, "x", "", "")>>
SearchOps ==
  <<RecOp("click", "#b", NoPosition, "", "", ""),
    RecOp("press", "", NoPosition, "", "Enter", "")>>

RecordInputs ==
  {[name |-> "Checkout flow", operations |-> LoginOps, pagePath |-> "/a",
    viewport |-> [width |-> 1440, height |-> 900]],
   [name |-> "checkout", operations |-> LoginOpsAgain, pagePath |-> "/b",
    viewport |-> [width |-> 1280, height |-> 800]],
   [name |-> "checkout", operations |-> SearchOps, pagePath |-> "/a",
    viewport |-> [width |-> 1440, height |-> 900]]}

Queries == {"CHECKOUT", "ghost"}

\* the session log of n single clicks on n different targets
StitchLog(n) ==
  [m \in 1..n |-> RecOp("click", "#s" \o ToString(m), NoPosition, "", "", "")]

Entry(op) ==
  [op |-> op, name |-> "", operations |-> <<>>, viewport |-> NoViewport, k |-> 0,
   at |-> clock, found |-> 0, created |-> <<>>, handled |-> <<>>, text |-> "",
   hadData |-> hasData, before |-> playbooks, after |-> playbooks]

\* new PlaybookStore(): nothing in memory; the file may or may not exist
StoreInit ==
  /\ actions = <<>> /\ browser = [mouse |-> TRUE, press |-> TRUE]
  /\ hasStore = TRUE /\ playbooks = <<>>
  /\ pc = "idle" /\ i = 1 /\ j = 0 /\ expansion = NoExpansion
  /\ results = <<>> /\ recordedOps = <<>> /\ terminalAction = NoAction
  /\ urlChanged = FALSE /\ bailReason = NoBail
  /\ currentUrl = "" /\ viewport = NoViewport
  /\ completedCount = -1 /\ thrown = FALSE
  /\ pageUrl = StartUrl /\ dom = Selectors
  /\ calls = <<>>
  /\ SettleIdle
  /\ hasData = FALSE /\ loaded = FALSE
  /\ disk \in {NoFile, [exists |-> TRUE, playbooks |-> <<StoredPlaybook(MaxPbLen)>>]}
  /\ clock = 0 /\ history = <<>> /\ stores = <<>> /\ goal = <<>>

StoreFrame ==
  /\ UNCHANGED <<actions, browser, hasStore, pc, i, j, expansion, results,
                 recordedOps, terminalAction, urlChanged, bailReason, currentUrl,
                 viewport, completedCount, thrown, pageUrl, dom, calls>>
  /\ UNCHANGED settleVars
  /\ UNCHANGED <<stores, goal>>

IsQuery(entry) == entry.op \in {"find", "expand", "getSummary"}
Open == IF history = <<>> THEN TRUE ELSE ~IsQuery(history[Len(history)])
Tick == Open /\ clock < MaxStoreOps /\ clock' = clock + 1
Ask == Open /\ clock <= MaxStoreOps /\ UNCHANGED clock

\* The first MaxStoreOps calls of a run are arbitrary.  A run of bookkeeping
\* alone (load, save, the two marks, and at most one record) is followed for
\* MaxStoreOps calls more.
Routine ==
  /\ \A n \in 1..Len(history) :
       history[n].op \in {"load", "save", "markSuccess", "markFailure", "record"}
  /\ Cardinality({n \in 1..Len(history) : history[n].op = "record"}) <= 1
Touch ==
  /\ Open
  /\ IF clock < MaxStoreOps THEN TRUE
     ELSE Routine /\ clock < MaxStoreOps + MaxStoreOps
  /\ clock' = clock + 1

\* load(domain)
StoreLoad ==
  /\ Touch
  /\ IF loaded
     THEN UNCHANGED <<playbooks, hasData, loaded>>
     ELSE /\ playbooks' = loadedFrom(disk)
          /\ hasData' = TRUE /\ loaded' = TRUE
  /\ history' = Append(history, [Entry("load") EXCEPT !.after = playbooks'])
  /\ UNCHANGED disk
  /\ StoreFrame

\* save(domain)
StoreSave ==
  /\ Touch
  /\ disk' = IF hasData THEN [exists |-> TRUE, playbooks |-> playbooks] ELSE disk
  /\ history' = Append(history, Entry("save"))
  /\ UNCHANGED <<playbooks, hasData, loaded>>
  /\ StoreFrame

\* record(domain, pagePath, name, operations, viewport)
StoreRecord ==
  /\ Tick
  /\ \E rec \in RecordInputs :
       /\ playbooks' = record(playbooks, Domain, rec.pagePath, rec.name,
                              rec.operations, rec.viewport, clock')
       /\ history' = Append(history,
                            [Entry("record") EXCEPT !.name = rec.name,
                               !.operations = rec.operations,
                               !.viewport = rec.viewport,
                               !.found = Len(playbooks'),
                               !.after = playbooks'])
  /\ hasData' = TRUE
  /\ UNCHANGED <<loaded, disk>>
  /\ StoreFrame

\* find(domain, name); lines 226-227 answer null when the domain has no data
StoreFind ==
  /\ Ask
  /\ \E name \in Queries :
       history' = Append(history,
                         [Entry("find") EXCEPT !.name = name,
                            !.found = IF hasData THEN find(playbooks, name) ELSE 0])
  /\ UNCHANGED <<playbooks, hasData, loaded, disk>>
  /\ StoreFrame

\* expand(domain, playbookName, currentViewport)
StoreExpand ==
  /\ Ask
  /\ \E name \in Queries, vp \in StoreViewports :
       LET e == IF hasData THEN expand(playbooks, name, vp) ELSE NoExpansion
       IN history' = Append(history,
                            [Entry("expand") EXCEPT !.name = name, !.viewport = vp,
                               !.found = e.playbook, !.operations = e.operations])
  /\ UNCHANGED <<playbooks, hasData, loaded, disk>>
  /\ StoreFrame

\* markSuccess(playbook) on a playbook of the list
StoreMarkSuccess ==
  /\ Touch
  /\ \E k \in 1..Len(playbooks) :
       /\ playbooks' = markSuccess(playbooks, k)
       /\ history' = Append(history,
                            [Entry("markSuccess") EXCEPT !.k = k, !.after = playbooks'])
  /\ UNCHANGED <<hasData, loaded, disk>>
  /\ StoreFrame

\* markFailure(playbook) on a playbook of the list
StoreMarkFailure ==
  /\ Touch
  /\ \E k \in 1..Len(playbooks) :
       /\ playbooks' = markFailure(playbooks, k)
       /\ history' = Append(history,
                            [Entry("markFailure") EXCEPT !.k = k, !.after = playbooks'])
  /\ UNCHANGED <<hasData, loaded, disk>>
  /\ StoreFrame

\* getSummary(domain)
StoreGetSummary ==
  /\ Ask
  /\ history' = Append(history, [Entry("getSummary") EXCEPT !.text = getSummary(playbooks)])
  /\ UNCHANGED <<playbooks, hasData, loaded, disk>>
  /\ StoreFrame

\* stitchFromLog(domain, pagePath, log, viewport)
StoreStitch ==
  /\ Tick
  /\ \E n \in 0..MaxLog :
       LET st == stitchFromLog(playbooks, Domain, "/a", StitchLog(n),
                               [width |-> 1440, height |-> 900], clock')
       IN /\ playbooks' = st.playbooks
          /\ hasData' = (hasData \/ Len(st.created) > 0)
          /\ history' = Append(history,
                               [Entry("stitchFromLog") EXCEPT !.operations = StitchLog(n),
                                  !.created = st.created, !.handled = st.handled,
                                  !.after = st.playbooks])
  /\ UNCHANGED <<loaded, disk>>
  /\ StoreFrame

StoreNext ==
  \/ StoreLoad \/ StoreSave \/ StoreRecord \/ StoreFind \/ StoreExpand
  \/ StoreMarkSuccess \/ StoreMarkFailure \/ StoreGetSummary \/ StoreStitch

SpecStore == StoreInit /\ [][StoreNext]_vars

----------------------------------------------------------------------------
\* playbook-store.ts: load and save of several PlaybookStore instances (one per
\* process) on the file of one domain.  save hands the document to
\* fs.writeFile, which opens the file with flag 'w' - the file is truncated -
\* and writes the bytes afterwards; nothing orders the writes of two
\* processes.

Instances == {"first", "second"}

\* new PlaybookStore(): no data, nothing loaded, no save in flight
FreshStore ==
  [playbooks |-> <<>>, hasData |-> FALSE, loaded |-> FALSE,
   pc |-> "idle", json |-> <<>>, used |-> 0, recorded |-> 0]

\* what the file holds: a whole document, nothing yet (opened and truncated),
\* or bytes of two documents written over each other
Document(list) == [exists |-> TRUE, playbooks |-> list]
Truncated == [exists |-> TRUE, playbooks |-> <<>>, torn |-> "truncated"]
Mixed == [exists |-> TRUE, playbooks |-> <<>>, torn |-> "mixed"]
Whole(file) == "torn" \notin DOMAIN file

\* the bytes after writeFile wrote json from offset 0: the document itself on
\* the file it truncated; on bytes another process wrote in between, the
\* document or a mix, as the lengths of the two have it
Written(file, list) ==
  IF Whole(file) /\ file.exists /\ file.playbooks # list
  THEN {Document(list), Mixed}
  ELSE {Document(list)}

FileInit ==
  /\ BatchIdle /\ SettleIdle
  /\ hasData = FALSE /\ loaded = FALSE
  /\ disk \in {NoFile, Document(<<StoredPlaybook(MaxPbLen)>>)}
  /\ clock = 0 /\ history = <<>>
  /\ stores = [s \in Instances |-> FreshStore]
  /\ goal = <<>>

FileFrame == UNCHANGED <<batchVars, settleVars, hasData, loaded, goal>>

\* load(domain) of one instance: JSON.parse rejects anything but a whole
\* document, and the catch leaves the empty list
FileLoad(s) ==
  /\ stores[s].pc = "idle" /\ ~stores[s].loaded
  /\ stores' = [stores EXCEPT ![s].playbooks = loadedFrom(disk),
                              ![s].hasData = TRUE, ![s].loaded = TRUE]
  /\ UNCHANGED <<disk, clock, history>>
  /\ FileFrame

\* record(...) of one instance
FileRecord(s) ==
  /\ stores[s].pc = "idle" /\ stores[s].used < MaxStoreOps
  /\ clock' = clock + 1
  /\ \E rec \in RecordInputs :
       stores' = [stores EXCEPT
                    ![s].playbooks = record(@, Domain, rec.pagePath, rec.name,
                                            rec.operations, rec.viewport, clock'),
                    ![s].hasData = TRUE, ![s].used = @ + 1,
                    ![s].recorded = @ + 1]
  /\ UNCHANGED <<disk, history>>
  /\ FileFrame

\* save(domain), lines 163-169: the document is serialised and writeFile
\* opens the file
FileOpen(s) ==
  /\ stores[s].pc = "idle" /\ stores[s].hasData /\ stores[s].used < MaxStoreOps
  /\ stores' = [stores EXCEPT ![s].pc = "writing", ![s].json = stores[s].playbooks,
                              ![s].used = @ + 1]
  /\ disk' = Truncated
  /\ UNCHANGED <<clock, history>>
  /\ FileFrame

\* save(domain), line 169: writeFile writes the bytes and save returns
FileWrite(s) ==
  /\ stores[s].pc = "writing"
  /\ disk' \in Written(disk, stores[s].json)
  /\ stores' = [stores EXCEPT ![s].pc = "idle"]
  /\ history' = Append(history, [op |-> "save", store |-> s,
                                 json |-> stores[s].json, before |-> disk])
  /\ UNCHANGED clock
  /\ FileFrame

FileNext ==
  \E s \in Instances : FileLoad(s) \/ FileRecord(s) \/ FileOpen(s) \/ FileWrite(s)

SpecFile == FileInit /\ [][FileNext]_vars

----------------------------------------------------------------------------
\* session.ts runGoal: the perceive-decide-execute loop around executeBatch,
\* one step per iteration.  A plan is the sequence of its items' kinds; time
\* is counted in ticks of which persona.options.timeout is GoalTimeout.

MAX_BATCH_SIZE == 8       \* llm module: "Max actions per batch (defensive cap)"
MaxGoalActions == 100     \* runGoal: "Safety: max 100 actions per goal"
MaxRawPlan == 9           \* longest plan the oracle's answer lists
GoalTimeout == 2          \* persona.options.timeout, in ticks

\* the kinds of plan item: a concrete operation, a reference to the stored
\* playbook, a reference to a playbook the store does not have, and the two
\* verdicts
ItemKinds == {"op", "playbook", "ghost", "done", "failed"}

\* the oracle's answers: n items of one kind, the last one of any kind
RawPlans ==
  { [k \in 1..n |-> IF k = n THEN last ELSE body] :
      n \in 1..MaxRawPlan, body \in {"op", "playbook"}, last \in ItemKinds }

\* parseResponse's cap on the batch (no item here is a document read, so
\* truncateAfterDocumentRead returns its argument)
parseResponse_uncapped(raw) == raw

parseResponse(raw) ==
  IF Len(raw) > MAX_BATCH_SIZE THEN SubSeq(raw, 1, MAX_BATCH_SIZE) ELSE raw

\* operations of the playbook a "playbook" item expands to
PlaybookLen == Len(StoredPlaybook(MaxPbLen).operations)

\* what runGoal reads from a BatchResult - completedCount, the length of
\* recordedOps, whether bailReason is set, the terminal action - plus the
\* number of driver operations the batch attempted
BatchSummary(attempted, count, recorded, bailed, terminal) ==
  [attempted |-> attempted, completedCount |-> count, recordedOps |-> recorded,
   bailed |-> bailed, terminalAction |-> terminal]

NoBatch == BatchSummary(0, 0, 0, FALSE, "none")

\* executeBatch item by item: every result it can return for `plan` from
\* item k on, having attempted `attempted` operations, pushed `count` results
\* and recorded `recorded` operations.  A concrete operation fails, or it
\* succeeds and - unless it is the last item - a check after it may bail.
RECURSIVE BatchOutcomes(_, _, _, _, _)
BatchOutcomes(plan, k, attempted, count, recorded) ==
  IF k > Len(plan) THEN {BatchSummary(attempted, count, recorded, FALSE, "none")}
  ELSE IF plan[k] \in {"done", "failed"}
    THEN {BatchSummary(attempted, count, recorded, FALSE, plan[k])}
  ELSE IF plan[k] = "ghost"
    THEN BatchOutcomes(plan, k + 1, attempted, count + 1, recorded)
  ELSE IF plan[k] = "playbook"
    THEN { BatchSummary(attempted + m, count + m, recorded, TRUE, "none") :
             m \in 1..PlaybookLen }
         \cup BatchOutcomes(plan, k + 1, attempted + PlaybookLen,
                            count + PlaybookLen, recorded)
  ELSE {BatchSummary(attempted + 1, count + 1, recorded, TRUE, "none")}
       \cup (IF k < Len(plan)
             THEN {BatchSummary(attempted + 1, count + 1, recorded + 1, TRUE, "none")}
             ELSE {})
       \cup BatchOutcomes(plan, k + 1, attempted + 1, count + 1, recorded + 1)

VerdictReason == "cannot proceed"      \* terminalAction.reason
TimeoutReason == "Goal timeout exceeded"

\* the end of one iteration: the terminal action, the safety cap, or the
\* next iteration
GoalAfterBatch_failsOnBail(batch, count) ==
  IF batch.terminalAction = "done"
    THEN [pc |-> "returned", status |-> "completed", failureReason |-> ""]
  ELSE IF batch.terminalAction = "failed" \/ batch.bailed
    THEN [pc |-> "returned", status |-> "failed",
          failureReason |-> VerdictReason]
  ELSE IF count >= MaxGoalActions
    THEN [pc |-> "returned", status |-> "timeout",
          failureReason |-> TimeoutReason]
  ELSE [pc |-> "loop", status |-> "", failureReason |-> ""]

GoalAfterBatch(batch, count) ==
  IF batch.terminalAction = "done"
    THEN [pc |-> "returned", status |-> "completed", failureReason |-> ""]
  ELSE IF batch.terminalAction = "failed"
    THEN [pc |-> "returned", status |-> "failed",
          failureReason |-> VerdictReason]
  ELSE IF count >= MaxGoalActions
    THEN [pc |-> "returned", status |-> "timeout",
          failureReason |-> TimeoutReason]
  ELSE [pc |-> "loop", status |-> "", failureReason |-> ""]

\* what the loop still looks at once the counts of a batch are added up
Verdict(batch) ==
  [bailed |-> batch.bailed, terminalAction |-> batch.terminalAction]

GoalInit ==
  /\ BatchIdle /\ SettleIdle
  /\ hasData = FALSE /\ loaded = FALSE /\ disk = NoFile
  /\ clock = 0 /\ history = <<>> /\ stores = <<>>
  /\ \E store \in BOOLEAN :
       goal = [pc |-> "loop", actionCount |-> 0, elapsed |-> 0,
               status |-> "", failureReason |-> "",
               batchResult |-> Verdict(NoBatch),
               playbookStore |-> store, sessionActionLog |-> 0,
               stitched |-> <<>>]

GoalFrame ==
  UNCHANGED <<batchVars, settleVars, hasData, loaded, disk, clock, history,
              stores>>

\* the answers the oracle gives inside the loop: the shortest and the longest
GoalPlans == {raw \in RawPlans : Len(raw) \in {1, MaxRawPlan}}

\* one iteration of the while loop in which nothing is rejected: the oracle
\* answers, the batch runs, its recordedOps join the log (of which the length
\* is kept, up to MaxLog), the count grows, the loop ends or goes on
GoalCycle ==
  /\ goal.pc = "loop" /\ goal.elapsed < GoalTimeout
  /\ \E raw \in GoalPlans, dt \in 0..1 :
       \E batch \in BatchOutcomes(parseResponse(raw), 1, 0, 0, 0) :
         LET count == goal.actionCount + batch.completedCount
             after == GoalAfterBatch(batch, count)
         IN /\ goal.sessionActionLog + batch.recordedOps <= MaxLog
            /\ goal' = [goal EXCEPT
                 !.pc = after.pc, !.actionCount = count,
                 !.elapsed = goal.elapsed + dt,
                 !.status = after.status,
                 !.failureReason = after.failureReason,
                 !.batchResult = Verdict(batch),
                 !.sessionActionLog = goal.sessionActionLog + batch.recordedOps]
  /\ GoalFrame

\* the page analysis, the oracle's second attempt or executeBatch rejects:
\* nothing in the loop catches it, and runGoal returns no result
GoalThrow ==
  /\ goal.pc = "loop" /\ goal.elapsed < GoalTimeout
  /\ goal' = [goal EXCEPT !.pc = "threw"]
  /\ GoalFrame

\* the while condition is false
GoalTimeoutExit ==
  /\ goal.pc = "loop" /\ goal.elapsed >= GoalTimeout
  /\ goal' = [goal EXCEPT !.pc = "returned", !.status = "timeout",
                          !.failureReason = TimeoutReason]
  /\ GoalFrame

\* lines 928-942: the finally block, after a return statement ("finished")
\* or on the way out of a rejection ("rejected")
GoalFinally ==
  /\ goal.pc \in {"returned", "threw"}
  /\ goal' = [goal EXCEPT
       !.pc = IF goal.pc = "returned" THEN "finished" ELSE "rejected",
       !.stitched = IF ShouldStitch(goal.playbookStore, goal.sessionActionLog)
                    THEN Append(goal.stitched, goal.sessionActionLog)
                    ELSE goal.stitched]
  /\ GoalFrame

GoalNext == GoalCycle \/ GoalThrow \/ GoalTimeoutExit \/ GoalFinally

SpecGoal == GoalInit /\ [][GoalNext]_vars

----------------------------------------------------------------------------
\* One answer of the oracle taken through parseResponse and executeBatch

PlanInit ==
  /\ BatchIdle /\ SettleIdle
  /\ hasData = FALSE /\ loaded = FALSE /\ disk = NoFile
  /\ clock = 0 /\ history = <<>> /\ stores = <<>>
  /\ \E raw \in RawPlans :
       goal = [pc |-> "answered", raw |-> raw, actionsToExecute |-> <<>>,
               batchResult |-> NoBatch]

PlanParse ==
  /\ goal.pc = "answered"
  /\ goal' = [goal EXCEPT !.pc = "parsed",
                          !.actionsToExecute = parseResponse(goal.raw)]
  /\ GoalFrame

PlanExecute ==
  /\ goal.pc = "parsed"
  /\ \E batch \in BatchOutcomes(goal.actionsToExecute, 1, 0, 0, 0) :
       goal' = [goal EXCEPT !.pc = "executed", !.batchResult = batch]
  /\ GoalFrame

PlanNext == PlanParse \/ PlanExecute

SpecPlan == PlanInit /\ [][PlanNext]_vars

----------------------------------------------------------------------------
\* playbook-store.ts: the coordinate helpers applied to one point

CoordViewports ==
  [width : 1..MaxCoord, height : 1..MaxCoord] \cup StoreViewports
CoordScrolls == {[x |-> 0, y |-> 0], [x |-> 0, y |-> 120]}
PointsIn(vp) ==
  LET xs == IF vp.width <= MaxCoord THEN 0..vp.width
            ELSE {0, 1, vp.width \div 2, vp.width - 1, vp.width}
      ys == IF vp.height <= MaxCoord THEN 0..vp.height
            ELSE {0, 1, vp.height \div 2, vp.height - 1, vp.height}
  IN [x : xs, y : ys]

CoordsInit ==
  /\ BatchIdle /\ SettleIdle
  /\ hasData = FALSE /\ loaded = FALSE /\ disk = NoFile
  /\ clock = 0 /\ history = <<>> /\ stores = <<>> /\ goal = <<>>

\* toAbsolute(toRelative(P, V, scroll), V)
RoundTrip ==
  /\ \E vp \in CoordViewports :
     \E point \in PointsIn(vp), scroll \in CoordScrolls :
       LET stored == toRelative(point.x, point.y, vp, scroll)
       IN history' = <<[op |-> "roundTrip", point |-> point, viewport |-> vp,
                        scroll |-> scroll, stored |-> stored,
                        absolute |-> toAbsolute(stored, vp)]>>
  /\ UNCHANGED <<batchVars, settleVars, hasData, loaded, disk, clock, stores, goal>>

CoordsNext == RoundTrip

SpecCoords == CoordsInit /\ [][CoordsNext]_vars

----------------------------------------------------------------------------
\* Properties of executeBatch (Spec)

Stopped == pc \in {"return", "returned", "recorded", "stitched"}
Concrete(action) == ~IsTerminal(action) /\ ~IsPlaybookRef(action, hasStore)
LastCall == calls[Len(calls)]
LastResult == results[Len(results)]

\* C1: when a concrete operation at plan index k fails, the batch stops at
\* once: the failed attempt is the last awaited step and the last entry of
\* results (success = false, with the operation's error), no entry before it
\* is a failed execution, nothing at an index above k is attempted, and
\* bailReason is "action failed: " followed by that error.
C1_BailOnFailure ==
  \A n \in 1..Len(calls) :
    (calls[n].kind = "action" /\ ~calls[n].ok) =>
      /\ n = Len(calls)
      /\ Stopped /\ i = calls[n].i
      /\ \A m \in 1..Len(calls) : calls[m].i <= calls[n].i
      /\ Len(results) > 0
      /\ LastResult.success = FALSE /\ LastResult.error = calls[n].value
      /\ LastResult.actionDesc = formatAction(actions[calls[n].i])
      /\ \A m \in 1..(Len(results) - 1) :
           results[m].success \/ results[m].error = "playbook not found"
      /\ bailReason = "action failed: " \o calls[n].value
      /\ terminalAction = NoAction

\* C1 witness: [click, click (fails), click] gives one success, one failure,
\* no attempt at the third item
C1_Witness ==
  /\ pc = "returned" /\ Len(actions) = 3
  /\ \A k \in 1..3 : actions[k].type = "click"
  /\ Len(results) = 2 /\ results[1].success /\ ~results[2].success
  /\ bailReason = "action failed: " \o ClickDetached
  /\ \A m \in 1..Len(calls) : calls[m].i < 3

\* C2: when the URL read after the settle wait that follows a successful
\* concrete operation (not the last item) differs from the URL captured at
\* batch start, the batch stops with urlChanged = true and bailReason
\* "URL changed"; that read is the last awaited step, so no later item is
\* attempted.
C2_BailOnUrlChange ==
  \A n \in 2..Len(calls) :
    (/\ calls[n].kind = "url" /\ calls[n].j = 0 /\ calls[n].i >= 1
     /\ calls[n].ok /\ calls[n].value # currentUrl) =>
      /\ calls[n - 1].kind = "settle"
      /\ calls[n].i < Len(actions)
      /\ n = Len(calls)
      /\ Stopped /\ i = calls[n].i
      /\ urlChanged = TRUE /\ bailReason = "URL changed"
      /\ \A m \in 1..Len(calls) : calls[m].i <= calls[n].i

\* C2 witness: [click (navigates), click, click] returns urlChanged with one
\* result only
C2_Witness ==
  /\ pc = "returned" /\ Len(actions) = 3
  /\ \A k \in 1..3 : actions[k].type = "click"
  /\ currentUrl = StartUrl /\ pageUrl # StartUrl
  /\ urlChanged /\ bailReason = "URL changed"
  /\ Len(results) = 1 /\ results[1].success
  /\ \A m \in 1..Len(calls) : calls[m].i <= 1

\* C3: the existence query for the next item's selector is made exactly when,
\* after a successful concrete operation that is not last and an unchanged
\* URL, the next item is a concrete operation with a resolvable selector.
\* If the selector matches nothing the batch stops with bailReason
\* "next target missing: <selector>" and urlChanged = false and the next item
\* is never attempted; if it matches, the next item is the next thing run.
C3_NextTargetCheck ==
  /\ \A n \in 1..Len(calls) :
       calls[n].kind = "target" =>
         LET k == calls[n].i
             sel == NextSelector(actions[k])
         IN /\ n > 1 /\ calls[n - 1].kind = "url" /\ calls[n - 1].i = k - 1
            /\ calls[n - 1].ok /\ calls[n - 1].value = currentUrl
            /\ actions[k].playbook = "" /\ ~IsTerminal(actions[k]) /\ sel # ""
            /\ (calls[n].ok /\ calls[n].value = "missing") =>
                 /\ n = Len(calls) /\ Stopped
                 /\ bailReason = "next target missing: " \o sel
                 /\ urlChanged = FALSE
            /\ (calls[n].ok /\ calls[n].value = "found") =>
                 /\ bailReason = NoBail \/ n < Len(calls)
                 /\ IF n = Len(calls) THEN pc = "loop" /\ i = k
                    ELSE calls[n + 1].kind = "action" /\ calls[n + 1].i = k
  /\ \A n \in 1..Len(calls) :
       (/\ calls[n].kind = "url" /\ calls[n].j = 0 /\ calls[n].i >= 1
        /\ calls[n].ok /\ calls[n].value = currentUrl
        /\ NextSelector(actions[calls[n].i + 1]) # "") =>
         IF n = Len(calls) THEN pc = "target"
         ELSE calls[n + 1].kind = "target" /\ calls[n + 1].i = calls[n].i + 1

\* C3 witness: the first check finds "#a" and the batch goes on; the second
\* finds no "#b" and the batch stops before the third item
C3_Witness ==
  /\ pc = "returned" /\ Len(actions) = 3
  /\ bailReason = "next target missing: #b" /\ ~urlChanged
  /\ Len(results) = 2 /\ results[1].success /\ results[2].success
  /\ "#b" \notin dom
  /\ \A m \in 1..Len(calls) : calls[m].kind = "action" => calls[m].i < 3

Attempts == {n \in 1..Len(calls) : calls[n].kind \in {"action", "playbook-op", "skip"}}

\* C4 as stated: an unresolved playbook reference appends one failed
\* "playbook not found" result, reaches no driver operation, sets no
\* bailReason and goes on to the next item - and the rest of the plan runs as
\* if the reference were absent, so that an operation which follows a
\* successful operation across the skipped slot has had the existence of its
\* target verified before it is attempted.
C4_AsIfAbsent ==
  \A n \in 1..Len(calls) :
    calls[n].kind = "skip" =>
      LET k == calls[n].i
      IN /\ Cardinality({m \in 1..Len(results) : results[m].error = "playbook not found"})
              = Cardinality({m \in 1..Len(calls) : calls[m].kind = "skip"})
         /\ \A m \in 1..Len(calls) : calls[m].i = k => ~calls[m].driver
         /\ n = Len(calls) => bailReason = NoBail /\ i = k + 1
         /\ n < Len(calls) => calls[n + 1].i = k + 1
         /\ (/\ n < Len(calls) /\ calls[n + 1].kind = "action"
             /\ NextSelector(actions[k + 1]) # ""
             /\ n > 1 /\ calls[n - 1].kind = "url" /\ calls[n - 1].i = k - 1) =>
              \E m \in 1..n : calls[m].kind = "target" /\ calls[m].i = k + 1

\* C4 amended: an unresolved playbook reference appends exactly one failed
\* "playbook not found" result, reaches no driver operation, sets no
\* bailReason and goes on to the next item, which is attempted directly: no
\* settle wait, URL check or target check is made for the skipped slot.
C4_SkipUnknownPlaybook ==
  /\ Cardinality(Attempts) = Len(results) + (IF thrown THEN 1 ELSE 0)
  /\ \A n \in 1..Len(calls) :
       calls[n].kind = "skip" =>
         LET k == calls[n].i
             r == Cardinality({m \in Attempts : m <= n})
         IN /\ actions[k].playbook # "" /\ find(playbooks, actions[k].playbook) = 0
            /\ results[r].success = FALSE /\ results[r].error = "playbook not found"
            /\ \A m \in 1..Len(calls) : calls[m].i = k => m = n
            /\ ~calls[n].driver
            /\ IF n = Len(calls)
               THEN /\ bailReason = NoBail /\ ~urlChanged /\ i = k + 1
                    /\ \/ pc \in {"loop", "pbop"}
                       \/ Stopped /\ (k = Len(actions) \/ terminalAction = actions[k + 1])
               ELSE /\ calls[n + 1].i = k + 1
                    /\ calls[n + 1].kind \in {"action", "playbook-op", "skip"}

\* C4 witness: [click, unknown reference, click "#b"]: the third item is
\* attempted although the page no longer holds "#b" and nothing looked for it
C4_Witness ==
  /\ pc = "returned" /\ Len(actions) = 3
  /\ Len(results) = 3 /\ results[1].success
  /\ results[2].error = "playbook not found" /\ ~results[2].success
  /\ actions[3].selector = "#b" /\ "#b" \notin dom
  /\ \E n \in 1..Len(calls) : calls[n].kind = "action" /\ calls[n].i = 3
  /\ \A n \in 1..Len(calls) : calls[n].kind # "target"

\* a variant of the loops of executeBatch: the plan items still to come, and
\* within the current item the steps still to come
ItemSteps == 3 * Len(playbooks[1].operations) + 3
Rank ==
  CASE pc = "stitched" -> 0
    [] pc = "threw"    -> 0
    [] pc = "recorded" -> 1
    [] pc = "returned" -> 2
    [] pc = "return"   -> 3
    [] pc = "start"    -> 4 + (Len(actions) + 1) * ItemSteps
    [] OTHER ->
         4 + (Len(actions) + 1 - i) * ItemSteps +
           (CASE pc = "loop"     -> ItemSteps - 1
              [] pc = "settle"   -> 3
              [] pc = "urlcheck" -> 2
              [] pc = "target"   -> 1
              [] pc = "pbop"     -> 3 * (Len(expansion.operations) - j) + 3
              [] pc = "pbsettle" -> 3 * (Len(expansion.operations) - j) + 2
              [] pc = "pburl"    -> 3 * (Len(expansion.operations) - j) + 1
              [] OTHER           -> 0)

C6_TerminalStops ==
  /\ \A n \in 1..Len(calls) :
       calls[n].i >= 1 => actions[calls[n].i].type \notin {"done", "failed"}
  /\ (Stopped /\ i <= Len(actions) /\ actions[i].type \in {"done", "failed"}) =>
       /\ terminalAction = actions[i]
       /\ bailReason = NoBail /\ ~urlChanged
       /\ \A n \in 1..Len(calls) : calls[n].i < i
       /\ Len(results) = Cardinality(Attempts)
  /\ terminalAction # NoAction =>
       /\ Stopped /\ i <= Len(actions) /\ terminalAction = actions[i]
       /\ terminalAction.type \in {"done", "failed"}

\* C6 witness: [click, failed, click] returns the failed verdict after one
\* result
C6_Witness ==
  /\ pc = "returned" /\ Len(actions) = 3
  /\ actions[2].type = "failed" /\ actions[3].type = "click"
  /\ terminalAction = actions[2] /\ terminalAction.reason = "stuck"
  /\ Len(results) = 1 /\ bailReason = NoBail

\* C7 as stated: when a sub-operation of an expanded playbook fails, or
\* navigation is detected between its sub-operations, the whole batch stops
\* and bailReason names the playbook and the index of the sub-step.
C7_PlaybookBailNamesStep ==
  \A n \in 1..Len(calls) :
    (/\ calls[n].j >= 1 /\ calls[n].kind \in {"playbook-op", "url"}
     /\ ~calls[n].ok \/ (calls[n].kind = "url" /\ calls[n].value # currentUrl)) =>
      /\ n = Len(calls) /\ Stopped
      /\ includes(bailReason, "playbook \"" \o actions[calls[n].i].playbook \o "\"")
      /\ includes(bailReason, "step " \o ToString(calls[n].j))

\* the stored playbook's counters against the replays the batch made
Replays(ok) ==
  {n \in 1..Len(calls) :
     /\ calls[n].kind = "playbook-op"
     /\ IF ok THEN calls[n].ok /\ calls[n].j = Len(playbooks[1].operations)
        ELSE ~calls[n].ok}

\* C8: each replay whose sub-operations all succeed with no URL change seen
\* between them adds exactly 1 to the playbook's successCount and nothing to
\* failCount; each replay in which a sub-operation fails adds exactly 1 to
\* failCount and nothing to successCount.
C8_ReplayCounters ==
  /\ playbooks[1].successCount = 1 + Cardinality(Replays(TRUE))
  /\ playbooks[1].failCount = Cardinality(Replays(FALSE))

\* C8 witness: one replay that succeeded, then one that failed
C8_Witness ==
  /\ pc = "returned"
  /\ playbooks[1].successCount = 2 /\ playbooks[1].failCount = 1
  /\ Len(results) = 2 * Len(playbooks[1].operations)

\* what expand and replay must leave alone: everything but the two counters
\* and lastUsed
Frozen(pb) == [pb EXCEPT !.successCount = 0, !.failCount = 0, !.lastUsed = 0]

\* C17: expand and replay never mutate the stored playbook: its operations
\* with their positions, its id, name and recordedViewport stay as stored,
\* whatever viewport the replay ran at and however it ended; only
\* successCount, failCount and lastUsed may differ.
C17_StoredPlaybookFrozen ==
  /\ Len(playbooks) >= 1
  /\ Frozen(playbooks[1]) = Frozen(StoredPlaybook(MaxPbLen))

\* C17 witness: the playbook was expanded at a viewport other than the one it
\* was recorded at and replayed twice, once to the end and once to a failure
C17_Witness ==
  /\ pc = "returned" /\ viewport # playbooks[1].recordedViewport
  /\ Replays(TRUE) # {} /\ Replays(FALSE) # {}
  /\ playbooks[1].lastUsed = 2

\* C21: execution inside executeBatch is strictly sequential and retry-free:
\* the awaited steps are logged one after the other in the order of the plan,
\* plan items (and the sub-operations of an expanded playbook) are attempted in
\* strictly increasing index order, so none is attempted twice, and every
\* check made between two attempts belongs to the item just run or the item
\* about to run.
C21_SequentialNoRetry ==
  /\ \A n, m \in Attempts :
       n < m => \/ calls[n].i < calls[m].i
                \/ calls[n].i = calls[m].i /\ calls[n].j < calls[m].j
  /\ \A n \in 1..(Len(calls) - 1) : calls[n].i <= calls[n + 1].i
  /\ \A n \in 1..Len(calls) :
       /\ calls[n].i <= Len(actions)
       /\ calls[n].kind \in {"settle", "scroll"} =>
            \E m \in Attempts : m < n /\ calls[m].i = calls[n].i /\ calls[m].ok
       /\ ~Stopped => calls[n].i <= i
  /\ Cardinality({calls[n].i : n \in Attempts}) <= Len(actions)

\* C21 witness: three concrete items, each attempted once, in plan order,
\* with a settle wait after the first two
C21_Witness ==
  /\ pc = "returned" /\ Len(actions) = 3
  /\ {calls[n].i : n \in Attempts} = 1..3 /\ Cardinality(Attempts) = 3
  /\ Cardinality({n \in 1..Len(calls) : calls[n].kind = "settle"}) = 2

\* C24: between consecutive sub-operations of an expanded playbook the
\* executor applies the checks it applies between concrete operations: a
\* settle wait, the URL check, and - when the next sub-operation has a
\* selector - the query that its target still exists, so that no such
\* sub-operation is attempted on a page its target is missing from.
C24_ChecksBetweenSubOps ==
  \A n \in 1..Len(calls) :
    (calls[n].kind = "playbook-op" /\ calls[n].j >= 2) =>
      LET op == playbooks[1].operations[calls[n].j]
          checks == IF op.selector # "" THEN <<"settle", "url", "target">>
                    ELSE <<"settle", "url">>
      IN /\ n > Len(checks)
         /\ \A k \in 1..Len(checks) :
              /\ calls[n - Len(checks) + k - 1].kind = checks[k]
              /\ calls[n - Len(checks) + k - 1].i = calls[n].i
         /\ op.selector # "" => calls[n - 1].value = "found"

\* C25: a successfully executed concrete operation is appended to recordedOps
\* only if it has a resolvable selector or a screen position; a successful
\* operation with neither is not appended.
C25_RecordsOnlyTargeted ==
  \A n \in 1..Len(recordedOps) :
    recordedOps[n].selector # "" \/ recordedOps[n].position # NoPosition

\* the evaluate-based checks between steps that rejected
StaleChecks ==
  {n \in 1..Len(calls) :
     /\ ~calls[n].ok
     /\ \/ calls[n].kind = "url" /\ calls[n].i >= 1
        \/ calls[n].kind = "target"}

\* C26 (amended): when the URL read or the next-target query between steps
\* rejects, executeBatch reports no error for it - nothing is thrown and no
\* failed result is added - but the check is not passed over: the batch ends
\* there with urlChanged = true and a bailReason that names the navigation.
C26_StaleContextBails ==
  /\ \A n \in StaleChecks :
       /\ n = Len(calls) /\ Stopped /\ ~thrown
       /\ urlChanged
       /\ bailReason =
            (IF calls[n].kind = "target"
             THEN "element check failed (page may have navigated)"
             ELSE IF calls[n].j = 0 THEN "navigation detected"
             ELSE "navigation during playbook \"" \o actions[calls[n].i].playbook
                  \o "\"")
  /\ Cardinality({m \in 1..Len(results) : ~results[m].success})
       = Cardinality({n \in Attempts : ~calls[n].ok})

\* C26 witness: the URL read after the first sub-operation of a playbook
\* rejected, and the batch returned with its one result a success
C26_Witness ==
  /\ pc = "returned" /\ StaleChecks # {}
  /\ LastCall.kind = "url" /\ LastCall.j = 1
  /\ Len(results) = 1 /\ results[1].success

\* C26 as stated: a rejected check between steps is an implicit success, a
\* no-op: the batch does not end on it
C26_StaleContextNoOp ==
  \A n \in StaleChecks : ~(n = Len(calls) /\ Stopped /\ bailReason # NoBail)

\* C20: after a batch runGoal records exactly one new playbook, made of the
\* batch's recorded inline operations in execution order, if and only if the
\* store is enabled, the batch returned no bailReason and it recorded at least
\* 2 inline operations; otherwise it records none.  Nothing else in the batch
\* adds a playbook.
C20_RecordsCleanBatch ==
  [][(pc' = "recorded" =>
        IF hasStore /\ bailReason = NoBail /\ Len(recordedOps) >= 2
        THEN /\ Len(playbooks') = Len(playbooks) + 1
             /\ SubSeq(playbooks', 1, Len(playbooks)) = playbooks
             /\ LET new == playbooks'[Len(playbooks')]
                IN /\ Len(new.operations) = Len(recordedOps)
                   /\ \A n \in 1..Len(recordedOps) :
                        /\ new.operations[n].type = recordedOps[n].type
                        /\ new.operations[n].selector = recordedOps[n].selector
                        /\ new.operations[n].text = recordedOps[n].text
                        /\ new.operations[n].key = recordedOps[n].key
                        /\ new.operations[n].position = recordedOps[n].position
                   /\ new.successCount = 1 /\ new.failCount = 0
        ELSE playbooks' = playbooks)
     /\ (pc' \notin {"recorded", "stitched"} => Len(playbooks') = Len(playbooks))]_vars

\* C20 witness: a batch of three operations that ran to the end was recorded
\* as the second playbook of the store, under the name made from its steps
C20_Witness ==
  /\ pc = "recorded" /\ bailReason = NoBail /\ Len(recordedOps) = 3
  /\ Len(playbooks) = 2 /\ Len(playbooks[2].operations) = 3
  /\ playbooks[2].name = autoName(recordedOps)
  /\ playbooks[2].pagePath = "/b"

\* the awaited steps that are operations handed to the driver layer
Operations == {n \in 1..Len(calls) : calls[n].kind \in {"action", "playbook-op"}}

\* C32: between any two operations that executeBatch performs one after the
\* other in a batch - the last sub-operation of an expanded playbook and the
\* next plan item included - it performs a settle wait and then a URL read.
C32_ChecksBetweenOperations ==
  \A m \in Operations, n \in Operations :
    (m < n /\ \A k \in Operations : ~(m < k /\ k < n)) =>
      \E s \in (m + 1)..(n - 1), u \in (m + 1)..(n - 1) :
        s < u /\ calls[s].kind = "settle" /\ calls[u].kind = "url"

\* the concrete operations that succeeded, in the order of their attempts
Succeeded == SelectSeq(calls, LAMBDA c : c.kind = "action" /\ c.ok)

\* C33: in every result of executeBatch, recordedOps holds exactly the
\* concrete operations that succeeded, in execution order, whether or not the
\* batch bailed after them; a failed operation, a sub-operation of a playbook
\* and a skipped reference are not in it.
C33_RecordedOpsExact ==
  pc \in {"return", "returned"} =>
    /\ Len(recordedOps) = Len(Succeeded)
    /\ \A k \in 1..Len(recordedOps) :
         LET action == actions[Succeeded[k].i]
         IN recordedOps[k] =
              Recorded(action, formatAction(action), viewport, PageScroll)

\* C33 witness: a batch that replayed a playbook, ran one concrete operation
\* and bailed on a URL change after it returned that one operation
C33_Witness ==
  /\ pc = "returned" /\ bailReason = "URL changed"
  /\ Len(recordedOps) = 1 /\ Len(results) > 1
  /\ \E n \in 1..Len(calls) : calls[n].kind = "playbook-op"

\* the awaited steps that push an entry to results, in order
Attempted ==
  SelectSeq(calls, LAMBDA c : c.kind \in {"action", "playbook-op", "skip"})

\* C34: in every result of executeBatch, completedCount is the length of
\* results, results holds one entry per attempt in attempt order, and every
\* entry before the last is a success or a "playbook not found" skip.
C34_ResultsShape ==
  pc = "returned" =>
    /\ completedCount = Len(results)
    /\ Len(results) = Len(Attempted)
    /\ \A k \in 1..Len(results) :
         /\ results[k].success = Attempted[k].ok
         /\ results[k].error = Attempted[k].value
         /\ (Attempted[k].kind = "skip") = (results[k].error = "playbook not found")
    /\ \A k \in 1..(Len(results) - 1) :
         results[k].success \/ results[k].error = "playbook not found"

\* C34 witness: a skipped reference, a success and a failed last operation
C34_Witness ==
  /\ pc = "returned" /\ completedCount = 3
  /\ results[1].error = "playbook not found"
  /\ results[2].success /\ ~results[3].success

\* C35: in every result of executeBatch, urlChanged implies a bailReason,
\* and terminalAction and bailReason are never both set.
C35_BailOrTerminal ==
  pc \in {"return", "returned"} =>
    /\ (urlChanged => bailReason # NoBail)
    /\ ~(terminalAction # NoAction /\ bailReason # NoBail)

\* C35 witness: a result with urlChanged whose reason came from a rejected
\* read, and no terminal action
C35_Witness ==
  /\ pc = "returned" /\ urlChanged /\ bailReason = "navigation detected"
  /\ terminalAction = NoAction

\* the expansions started: the first sub-operation of each
Expansions == {n \in 1..Len(calls) : calls[n].kind = "playbook-op" /\ calls[n].j = 1}

\* C36: every playbook reference that executeBatch expanded and started has
\* led to exactly one counter update once the batch returns, however the
\* expansion ended.
C36_OneCounterUpdate ==
  pc = "returned" =>
    (playbooks[1].successCount - 1) + playbooks[1].failCount
      = Cardinality(Expansions)

\* C38: executeBatch reports bailReason "URL changed" only when the page is
\* no longer at the URL it had when the batch started.
C38_UrlChangedIsReal ==
  (pc \in {"return", "returned"} /\ bailReason = "URL changed")
    => pageUrl # StartUrl

\* C31: at the end of a goal, stitchFromLog does not record as a further
\* playbook an operation sequence that was already recorded as a playbook
\* right after its batch.
C31_StitchSkipsRecorded ==
  pc = "stitched" =>
    \A a \in 2..Len(playbooks), b \in 2..Len(playbooks) :
      a < b => playbooks[a].operations # playbooks[b].operations

\* C37: every playbook created for the goal - after its batch or by the
\* stitch at the goal's end - has as pagePath the path of the page its
\* operations were executed on, which is the page the batch started on.
C37_PagePathOfOperations ==
  pc \in {"recorded", "stitched"} =>
    \A k \in 2..Len(playbooks) : playbooks[k].pagePath = pathname(StartUrl)

----------------------------------------------------------------------------
\* Properties of waitForDOMSettle (SpecSettle).  The watch is installed at
\* time 0.

\* the instant the quiet period ends, counted from the later of installation
\* and the last mutation
QuietInstant == (IF sLastMutation = -1 THEN 0 ELSE sLastMutation) + sQuiet
SettleInstant == IF QuietInstant < sTimeout THEN QuietInstant ELSE sTimeout

\* C9: the wait is bounded by the hard cap: whatever the mutations do, it
\* never waits past timeout ms after installation, it has returned no later
\* than that, and at the cap the hard timer is armed and due.
C9_HardCap ==
  /\ sPc = "waiting" =>
       /\ sNow <= sTimeout
       /\ sHard = sTimeout
       /\ sNow = sTimeout => ENABLED SettleHardFires
  /\ sPc = "returned" => sResolvedAt >= 0 /\ sResolvedAt <= sTimeout

\* C9 witness: mutations kept the quiet timer from firing until the default
\* cap of 2000 ms ended the wait
C9_Witness ==
  /\ sPc = "returned" /\ sReason = "timeout"
  /\ sTimeout = DefaultTimeout /\ sResolvedAt = DefaultTimeout
  /\ sLastMutation > sTimeout - sQuiet

\* C10: with a body and no rejection, the wait resolves exactly at the first
\* instant at which quietPeriod ms have passed since the later of installation
\* and the last mutation, or timeout ms since installation; until then it
\* keeps waiting, and the quiet timer always stands quietPeriod after the last
\* mutation.
C10_QuietOrTimeout ==
  /\ sPc = "waiting" =>
       /\ sNow <= SettleInstant
       /\ sTimer = QuietInstant
  /\ (sPc = "returned" /\ sReason \in {"no-mutations", "quiet", "timeout"}) =>
       /\ sHasBody
       /\ sResolvedAt = SettleInstant
       /\ sReason = "timeout" => sResolvedAt = sTimeout
       /\ sReason # "timeout" => sResolvedAt = QuietInstant

\* C10 witness: a mutation restarted the default quiet period of 100 ms, which
\* then ran out before the cap
C10_Witness ==
  /\ sPc = "returned" /\ sReason = "quiet"
  /\ sQuiet = DefaultQuietPeriod /\ sLastMutation > 0
  /\ sResolvedAt = sLastMutation + DefaultQuietPeriod
  /\ sResolvedAt < sTimeout

\* C11: a rejected evaluate - while the watch is being installed or while it
\* is waiting - never leaves waitForDOMSettle as an exception: the function
\* returns normally.
C11_SettleSwallows ==
  /\ sPc \in {"idle", "waiting", "returned"}
  /\ sReason = "navigated" => sPc = "returned"

\* C11 witness: the page navigated in the middle of the wait, after a mutation
C11_Witness ==
  /\ sPc = "returned" /\ sReason = "navigated"
  /\ sLastMutation >= 0 /\ sResolvedAt > sLastMutation /\ sResolvedAt < sTimeout

----------------------------------------------------------------------------
\* Properties of the PlaybookStore (SpecStore)

Calls(op) == {n \in 1..Len(history) : history[n].op = op}

\* C12 as stated: a second stitchFromLog with the identical log returns an
\* empty list and adds no playbook, for every log length, and the playbooks
\* the first call created have their successCount incremented instead.
C12_StitchIdempotent ==
  \A n \in Calls("stitchFromLog") :
    (n > 1 /\ history[n - 1].op = "stitchFromLog"
           /\ history[n - 1].operations = history[n].operations) =>
      /\ history[n].created = <<>>
      /\ Len(history[n].after) = Len(history[n].before)
      /\ \A k \in (Len(history[n - 1].before) + 1)..Len(history[n].before) :
           history[n].after[k].successCount > history[n].before[k].successCount

\* the fields of an operation sequence that the id may depend on
Structure(operations) ==
  [n \in 1..Len(operations) |->
     <<operations[n].type, operations[n].selector, operations[n].text,
       operations[n].key>>]
NewPlaybook(n) == history[n].after[history[n].found]

\* C13: two record calls whose operation sequences agree on type, selector,
\* text and key, in order, give the same id, whatever the name, page path,
\* viewport, descriptions, positions and time of the two calls.
C13_IdDeterministic ==
  \A n \in Calls("record"), m \in Calls("record") :
    Structure(history[n].operations) = Structure(history[m].operations) =>
      NewPlaybook(n).id = NewPlaybook(m).id

\* C13 witness: the same click-and-type recorded twice under different names,
\* descriptions, positions, viewports, page paths and times
C13_Witness ==
  \E n \in Calls("record"), m \in Calls("record") :
    /\ history[n].operations = LoginOps /\ history[m].operations = LoginOpsAgain
    /\ NewPlaybook(n).id = NewPlaybook(m).id
    /\ NewPlaybook(n).name # NewPlaybook(m).name
    /\ NewPlaybook(n).pagePath # NewPlaybook(m).pagePath
    /\ NewPlaybook(n).recordedViewport # NewPlaybook(m).recordedViewport
    /\ NewPlaybook(n).createdAt # NewPlaybook(m).createdAt
    /\ NewPlaybook(n).operations[1].position # NewPlaybook(m).operations[1].position

\* C15: expand returns the stored operations in the same order and number;
\* an operation without a position comes back unchanged, and a stored position
\* comes back with viewportWidth / viewportHeight set to the current viewport,
\* its scroll offsets as stored, and ratios whose pixel location under the
\* current viewport is (round(relX * width), round(relY * height)) of the
\* stored ratios.
C15_ExpandRescales ==
  \A n \in Calls("expand") :
    history[n].found # 0 =>
      LET stored == history[n].before[history[n].found].operations
          given == history[n].operations
          vp == history[n].viewport
      IN /\ Len(given) = Len(stored)
         /\ \A k \in 1..Len(stored) :
              IF stored[k].position = NoPosition THEN given[k] = stored[k]
              ELSE /\ [given[k] EXCEPT !.position = NoPosition]
                        = [stored[k] EXCEPT !.position = NoPosition]
                   /\ given[k].position.viewportWidth = vp.width
                   /\ given[k].position.viewportHeight = vp.height
                   /\ given[k].position.scrollX = stored[k].position.scrollX
                   /\ given[k].position.scrollY = stored[k].position.scrollY
                   /\ toAbsolute(given[k].position, vp) =
                        [x |-> RoundDiv(stored[k].position.relXn * vp.width,
                                        stored[k].position.viewportWidth),
                         y |-> RoundDiv(stored[k].position.relYn * vp.height,
                                        stored[k].position.viewportHeight)]

\* C15 witness: a click recorded at the centre of 1440x900 resolves to
\* (640, 400) when expanded at 1280x800; the type after it has no position
C15_Witness ==
  \E n \in Calls("expand") :
    /\ history[n].found # 0
    /\ history[n].viewport = [width |-> 1280, height |-> 800]
    /\ history[n].before[history[n].found].operations[1].position = CentrePosition
    /\ toAbsolute(history[n].operations[1].position, history[n].viewport)
         = [x |-> 640, y |-> 400]
    /\ history[n].operations[1].position.scrollY = 120
    /\ history[n].operations[2].position = NoPosition

\* C16: find answers null for a domain without data; else the first playbook
\* in insertion order whose name equals the query ignoring case, even behind a
\* playbook whose name merely contains it; else the first whose name contains
\* the query ignoring case; else null.  It leaves the store unchanged.
C16_FindOrder ==
  \A n \in Calls("find") :
    LET list == history[n].before
        lower == toLowerCase(history[n].name)
        Equal == {k \in 1..Len(list) : toLowerCase(list[k].name) = lower}
        Containing == {k \in 1..Len(list) : includes(toLowerCase(list[k].name), lower)}
        found == history[n].found
    IN /\ ~history[n].hadData => found = 0
       /\ Equal # {} => found \in Equal /\ \A k \in Equal : found <= k
       /\ (Equal = {} /\ Containing # {}) =>
            found \in Containing /\ \A k \in Containing : found <= k
       /\ Containing = {} => found = 0
       /\ history[n].after = list
       /\ n = Len(history) => playbooks = list

\* C16 witness: "CHECKOUT" finds the second playbook, "checkout", although
\* the first, "Checkout flow", contains the query
C16_Witness ==
  \E n \in Calls("find") :
    /\ history[n].name = "CHECKOUT" /\ history[n].found = 2
    /\ history[n].before[1].name = "Checkout flow"
    /\ history[n].before[2].name = "checkout"

\* a load that finds the domain not yet loaded replaces the in-memory list
FirstLoad(n) ==
  history[n].op = "load" /\ \A m \in 1..(n - 1) : history[m].op # "load"

CountersKept(old, new) ==
  new.successCount >= old.successCount /\ new.failCount >= old.failCount

\* C18 (amended): markSuccess adds exactly 1 to the playbook's successCount
\* and markFailure exactly 1 to its failCount; each leaves the other counter,
\* every other playbook and the length of the list unchanged.  Across every
\* store call other than the load that replaces the list, every playbook keeps
\* its place and neither of its counters decreases.
C18_MarksMonotone ==
  /\ \A n \in Calls("markSuccess") \cup Calls("markFailure") :
       LET k == history[n].k
           old == history[n].before
           new == history[n].after
       IN /\ Len(new) = Len(old)
          /\ \A m \in 1..Len(old) : m # k => new[m] = old[m]
          /\ Frozen(new[k]) = Frozen(old[k])
          /\ IF history[n].op = "markSuccess"
             THEN /\ new[k].successCount = old[k].successCount + 1
                  /\ new[k].failCount = old[k].failCount
             ELSE /\ new[k].failCount = old[k].failCount + 1
                  /\ new[k].successCount = old[k].successCount
  /\ \A n \in 1..Len(history) :
       /\ n > 1 => history[n].before = history[n - 1].after
       /\ ~FirstLoad(n) =>
            /\ Len(history[n].after) >= Len(history[n].before)
            /\ \A m \in 1..Len(history[n].before) :
                 CountersKept(history[n].before[m], history[n].after[m])

\* C18 witness: a failure marked on the second of two playbooks, whose
\* successCount and whose neighbour stay as they were
C18_Witness ==
  \E n \in Calls("markFailure") :
    /\ Len(history[n].before) = 2 /\ history[n].k = 2
    /\ history[n].after[2].failCount = 1 /\ history[n].after[2].successCount = 1
    /\ history[n].after[1] = history[n].before[1]

\* C18 as stated: across any sequence of store calls no playbook's
\* successCount or failCount ever decreases
C18_NeverDecreases ==
  \A n \in 1..Len(history) :
    \A m \in 1..Len(history[n].before) :
      (/\ m <= Len(history[n].after)
       /\ Frozen(history[n].after[m]) = Frozen(history[n].before[m])) =>
        CountersKept(history[n].before[m], history[n].after[m])

\* C27: stitchFromLog scans the log greedily without overlap: every window
\* it handles holds at most 6 consecutive log operations, and after a window
\* is handled, by a bump or by a creation, the next window starts behind its
\* end, so no log operation belongs to two handled windows.
C27_WindowsDisjoint ==
  \A n \in Calls("stitchFromLog") :
    LET handled == history[n].handled
    IN /\ \A k \in 1..Len(handled) :
            /\ handled[k].start <= handled[k].end
            /\ handled[k].end - handled[k].start + 1 <= maxGroupSize
            /\ handled[k].end <= Len(history[n].operations)
       /\ \A k \in 1..(Len(handled) - 1) : handled[k + 1].start > handled[k].end

\* C28: for each window stitchFromLog bumps an existing playbook only when
\* that playbook has the window's auto-name, and when no stored playbook has
\* that name it creates a playbook named with it.
C28_BumpsSameName ==
  \A n \in Calls("stitchFromLog") :
    \A k \in 1..Len(history[n].handled) :
      LET window == history[n].handled[k]
          named == {m \in 1..Len(window.list) : window.list[m].name = window.name}
      IN /\ window.existing # 0 => window.existing \in named
         /\ named = {} =>
              /\ window.existing = 0
              /\ \E c \in 1..Len(history[n].created) :
                   history[n].created[c].name = window.name

\* C19: the store never deletes a playbook: across every store call (load,
\* record, find, expand, markSuccess, markFailure, getSummary, stitchFromLog,
\* save) a playbook that is in the in-memory list stays in it, at its place,
\* and the list never shrinks.
C19_NeverDeletes ==
  \A n \in 1..Len(history) :
    /\ Len(history[n].after) >= Len(history[n].before)
    /\ \A m \in 1..Len(history[n].before) :
         Frozen(history[n].after[m]) = Frozen(history[n].before[m])

----------------------------------------------------------------------------
\* Properties of load and save on the shared file (SpecFile)

\* C22: save replaces the domain's document atomically: at every instant,
\* also while a save is in flight, the file holds a complete document (the
\* previous one or the new one), never a partial one.
C22_AtomicSave == Whole(disk)

SavedBy(s) == {n \in 1..Len(history) : history[n].store = s}

\* C23: the last full-file write wins: once two instances have each recorded
\* and saved, and no save is in flight, the file holds exactly the list the
\* instance that saved last wrote.
C23_LastWriteWins ==
  (\A s \in Instances :
     /\ stores[s].loaded /\ stores[s].recorded > 0
     /\ SavedBy(s) # {} /\ stores[s].pc = "idle")
    => disk = Document(history[Len(history)].json)

----------------------------------------------------------------------------
\* Properties of runGoal (SpecGoal) and of one parsed answer (SpecPlan)

\* C29 (as stated): runGoal ends with a non-completed status only when the
\* goal's time budget is exhausted or the oracle returned a failed verdict.
C29_OnlyBudgetOrVerdict ==
  (goal.pc = "returned" /\ goal.status \in {"failed", "timeout"})
    => (goal.elapsed >= GoalTimeout
        \/ goal.batchResult.terminalAction = "failed")

\* C29 (amended): runGoal ends as failed only on the oracle's failed verdict,
\* with the verdict's reason; it ends as timeout, with the reason "Goal
\* timeout exceeded", only when the time budget is exhausted or the goal's
\* action count has reached the safety cap of 100; and after a batch that
\* bailed, with budget and cap not reached, the loop goes on to its next
\* iteration.
C29_EndsOnBudgetCapOrVerdict ==
  /\ ((goal.pc = "returned" /\ goal.status = "failed")
       => (/\ goal.batchResult.terminalAction = "failed"
           /\ goal.failureReason = VerdictReason))
  /\ ((goal.pc = "returned" /\ goal.status = "timeout")
       => (/\ goal.failureReason = TimeoutReason
           /\ \/ goal.elapsed >= GoalTimeout
              \/ goal.actionCount >= MaxGoalActions))
  /\ ((/\ goal.batchResult.bailed /\ goal.pc \notin {"threw", "rejected"}
      /\ goal.elapsed < GoalTimeout /\ goal.actionCount < MaxGoalActions)
       => goal.pc = "loop")

\* runGoal returned "timeout" inside its time budget, right after a batch
\* that bailed and took the action count to the cap
C29_Witness ==
  /\ goal.pc = "returned" /\ goal.status = "timeout"
  /\ goal.elapsed < GoalTimeout
  /\ goal.batchResult.bailed
  /\ goal.actionCount >= MaxGoalActions

\* C39: on every way out of runGoal - done, failed, timeout, action cap, or
\* an error thrown inside the loop - stitchFromLog has been invoked exactly
\* once, over the whole log, when the store is enabled and the log has at
\* least 2 entries, and not at all when it has fewer; it is never invoked
\* before the way out.
C39_StitchOnEveryExit ==
  IF goal.pc \in {"finished", "rejected"}
  THEN goal.stitched =
         (IF goal.playbookStore /\ goal.sessionActionLog >= 2
          THEN <<goal.sessionActionLog>> ELSE <<>>)
  ELSE goal.stitched = <<>>

\* C39 witness: an error thrown inside the loop, after batches that logged
\* operations, and the log was stitched on the way out
C39_Witness ==
  /\ goal.pc = "rejected" /\ goal.playbookStore
  /\ goal.sessionActionLog >= 2
  /\ goal.stitched = <<goal.sessionActionLog>>

\* operations a plan item stands for
ItemSize(kind) ==
  IF kind = "op" THEN 1 ELSE IF kind = "playbook" THEN PlaybookLen ELSE 0

RECURSIVE PlanSize(_)
PlanSize(plan) ==
  IF plan = <<>> THEN 0 ELSE ItemSize(Head(plan)) + PlanSize(Tail(plan))

\* C30 (as stated): a plan longer than 8 items is cut to its first 8, and
\* one batch attempts at most 8 operations.
C30_AtMostEightOperations ==
  goal.pc = "executed"
    => (/\ Len(goal.actionsToExecute) <= MAX_BATCH_SIZE
        /\ goal.batchResult.attempted <= MAX_BATCH_SIZE)

\* C30 (amended): a plan longer than 8 items is cut to its first 8 items; one
\* batch attempts at most one operation per concrete item and at most the
\* playbook's operations per playbook reference of those items, hence at
\* most 8 operations only when the plan references no playbook.
C30_AtMostEightItems ==
  goal.pc \in {"parsed", "executed"} =>
  /\ Len(goal.actionsToExecute) <= MAX_BATCH_SIZE
  /\ goal.actionsToExecute =
       SubSeq(goal.raw, 1, Len(goal.actionsToExecute))
  /\ (Len(goal.raw) <= MAX_BATCH_SIZE => goal.actionsToExecute = goal.raw)
  /\ (Len(goal.raw) > MAX_BATCH_SIZE
       => Len(goal.actionsToExecute) = MAX_BATCH_SIZE)
  /\ goal.batchResult.attempted <= PlanSize(goal.actionsToExecute)
  /\ ((\A k \in 1..Len(goal.actionsToExecute) :
         goal.actionsToExecute[k] # "playbook")
       => goal.batchResult.attempted <= MAX_BATCH_SIZE)

\* a plan of more than 8 items was cut and the batch run from it attempted
\* more than 8 operations
C30_Witness ==
  /\ goal.pc = "executed"
  /\ Len(goal.raw) > MAX_BATCH_SIZE
  /\ Len(goal.actionsToExecute) = MAX_BATCH_SIZE
  /\ goal.batchResult.attempted > MAX_BATCH_SIZE

----------------------------------------------------------------------------
\* Properties of the coordinate helpers (SpecCoords)

Distance(a, b) == IF a < b THEN b - a ELSE a - b

\* C14: for a viewport V of positive width and height and a point P inside
\* it, toAbsolute(toRelative(P, V), V) is within 1 pixel of P on each axis,
\* and toRelative stores ratios between 0 and 1 together with V's dimensions
\* and the scroll offsets it was given.
C14_RoundTrip ==
  \A n \in 1..Len(history) :
    history[n].op = "roundTrip" =>
      LET h == history[n]
      IN /\ Distance(h.absolute.x, h.point.x) <= 1
         /\ Distance(h.absolute.y, h.point.y) <= 1
         /\ 0 <= h.stored.relXn /\ h.stored.relXn <= h.stored.viewportWidth
         /\ 0 <= h.stored.relYn /\ h.stored.relYn <= h.stored.viewportHeight
         /\ h.stored.viewportWidth = h.viewport.width
         /\ h.stored.viewportHeight = h.viewport.height
         /\ h.stored.scrollX = h.scroll.x /\ h.stored.scrollY = h.scroll.y

\* C14 witness: the bottom-right corner of a scrolled 1440x900 window
C14_Witness ==
  /\ history # <<>> /\ history[1].op = "roundTrip"
  /\ history[1].viewport = [width |-> 1440, height |-> 900]
  /\ history[1].point = [x |-> 1440, y |-> 900]
  /\ history[1].scroll = [x |-> 0, y |-> 120]
  /\ history[1].absolute = history[1].point
====
